---- MODULE Spec2Model ----
(***************************************************************************)
(* BIP39 mnemonic codec of the wallet (mnemonic.rs): Mnemonic::mnemonic    *)
(* (entropy -> words), Mnemonic::from (string -> validated words),         *)
(* Mnemonic::to_string, the 11-bit reader U11BitReader and the 11-bit      *)
(* writer U11BitWriter, over the 2048-word table WORDS.                    *)
(*                                                                         *)
(* A string is a sequence of byte values (ASCII codes), a byte slice is a  *)
(* sequence of numbers in 0..255.  Rust indices are 0-based, sequences are *)
(* 1-based: WORDS[idx] of the source is WORDS[idx + 1] here.               *)
(***************************************************************************)
EXTENDS Integers, Sequences, FiniteSets, TLC

(***************************************************************************)
(* Bounds of the explored inputs.                                          *)
(***************************************************************************)
MaxEntropyLen == 36   \* entropy slices of 0..MaxEntropyLen bytes
MaxWords == 27        \* composed strings of 1..MaxWords pieces
MaxSalt == 1          \* digest functions 0..MaxSalt (0 agrees with SHA-256 on the fills)
MaxEdits == 1         \* transcription edits applied to a string

(***************************************************************************)
(* Machine arithmetic: u8 / u16 values, shifts and bitwise operators.      *)
(***************************************************************************)
Pow2(n) == <<1, 2, 4, 8, 16, 32, 64, 128, 256, 512, 1024, 2048, 4096, 8192, 16384, 32768, 65536>>[n + 1]

U8(x) == x % 256

U16(x) == x % 65536

Shl16(x, n) == U16(x * Pow2(n))

Shr(x, n) == x \div Pow2(n)

\* Bitwise and / or of two u16 values, by their four hexadecimal digits; the
\* tables give the result on one digit.
And4Table ==
    << <<0, 0, 0, 0, 0, 0, 0, 0, 0, 0, 0, 0, 0, 0, 0, 0>>,
       <<0, 1, 0, 1, 0, 1, 0, 1, 0, 1, 0, 1, 0, 1, 0, 1>>,
       <<0, 0, 2, 2, 0, 0, 2, 2, 0, 0, 2, 2, 0, 0, 2, 2>>,
       <<0, 1, 2, 3, 0, 1, 2, 3, 0, 1, 2, 3, 0, 1, 2, 3>>,
       <<0, 0, 0, 0, 4, 4, 4, 4, 0, 0, 0, 0, 4, 4, 4, 4>>,
       <<0, 1, 0, 1, 4, 5, 4, 5, 0, 1, 0, 1, 4, 5, 4, 5>>,
       <<0, 0, 2, 2, 4, 4, 6, 6, 0, 0, 2, 2, 4, 4, 6, 6>>,
       <<0, 1, 2, 3, 4, 5, 6, 7, 0, 1, 2, 3, 4, 5, 6, 7>>,
       <<0, 0, 0, 0, 0, 0, 0, 0, 8, 8, 8, 8, 8, 8, 8, 8>>,
       <<0, 1, 0, 1, 0, 1, 0, 1, 8, 9, 8, 9, 8, 9, 8, 9>>,
       <<0, 0, 2, 2, 0, 0, 2, 2, 8, 8, 10, 10, 8, 8, 10, 10>>,
       <<0, 1, 2, 3, 0, 1, 2, 3, 8, 9, 10, 11, 8, 9, 10, 11>>,
       <<0, 0, 0, 0, 4, 4, 4, 4, 8, 8, 8, 8, 12, 12, 12, 12>>,
       <<0, 1, 0, 1, 4, 5, 4, 5, 8, 9, 8, 9, 12, 13, 12, 13>>,
       <<0, 0, 2, 2, 4, 4, 6, 6, 8, 8, 10, 10, 12, 12, 14, 14>>,
       <<0, 1, 2, 3, 4, 5, 6, 7, 8, 9, 10, 11, 12, 13, 14, 15>> >>

Or4Table ==
    << <<0, 1, 2, 3, 4, 5, 6, 7, 8, 9, 10, 11, 12, 13, 14, 15>>,
       <<1, 1, 3, 3, 5, 5, 7, 7, 9, 9, 11, 11, 13, 13, 15, 15>>,
       <<2, 3, 2, 3, 6, 7, 6, 7, 10, 11, 10, 11, 14, 15, 14, 15>>,
       <<3, 3, 3, 3, 7, 7, 7, 7, 11, 11, 11, 11, 15, 15, 15, 15>>,
       <<4, 5, 6, 7, 4, 5, 6, 7, 12, 13, 14, 15, 12, 13, 14, 15>>,
       <<5, 5, 7, 7, 5, 5, 7, 7, 13, 13, 15, 15, 13, 13, 15, 15>>,
       <<6, 7, 6, 7, 6, 7, 6, 7, 14, 15, 14, 15, 14, 15, 14, 15>>,
       <<7, 7, 7, 7, 7, 7, 7, 7, 15, 15, 15, 15, 15, 15, 15, 15>>,
       <<8, 9, 10, 11, 12, 13, 14, 15, 8, 9, 10, 11, 12, 13, 14, 15>>,
       <<9, 9, 11, 11, 13, 13, 15, 15, 9, 9, 11, 11, 13, 13, 15, 15>>,
       <<10, 11, 10, 11, 14, 15, 14, 15, 10, 11, 10, 11, 14, 15, 14, 15>>,
       <<11, 11, 11, 11, 15, 15, 15, 15, 11, 11, 11, 11, 15, 15, 15, 15>>,
       <<12, 13, 14, 15, 12, 13, 14, 15, 12, 13, 14, 15, 12, 13, 14, 15>>,
       <<13, 13, 15, 15, 13, 13, 15, 15, 13, 13, 15, 15, 13, 13, 15, 15>>,
       <<14, 15, 14, 15, 14, 15, 14, 15, 14, 15, 14, 15, 14, 15, 14, 15>>,
       <<15, 15, 15, 15, 15, 15, 15, 15, 15, 15, 15, 15, 15, 15, 15, 15>> >>

And4(a, b) == And4Table[a + 1][b + 1]

Or4(a, b) == Or4Table[a + 1][b + 1]

BitAnd(a, b) ==
    4096 * And4(a \div 4096, b \div 4096) + 256 * And4((a \div 256) % 16, (b \div 256) % 16)
        + 16 * And4((a \div 16) % 16, (b \div 16) % 16) + And4(a % 16, b % 16)

BitOr(a, b) ==
    4096 * Or4(a \div 4096, b \div 4096) + 256 * Or4((a \div 256) % 16, (b \div 256) % 16)
        + 16 * Or4((a \div 16) % 16, (b \div 16) % 16) + Or4(a % 16, b % 16)

(***************************************************************************)
(* Results: Result<Mnemonic> is Ok(words) or Err(message); NotCalled marks *)
(* a call that has not been made yet.                                      *)
(***************************************************************************)
Ok(words) == [ok |-> TRUE, err |-> "", words |-> words]

Err(msg) == [ok |-> FALSE, err |-> msg, words |-> <<>>]

NotCalled == Err("not called")

Panic == Err("panic")

ErrWordCount ==
    "Mnemonic must have a word count of the following lengths: 24, 21, 18, 15, 12"

ErrUnknownWord == "Mnemonic contains an unknown word"

ErrChecksum == "Mnemonic checksum failed"

ErrEntropyLength ==
    "Entropy data for mnemonic must have one of the following byte lengths: 32, 28, 24, 20, 16"

(***************************************************************************)
(* The dictionary: const WORDS: [&str; 2048].                              *)
(***************************************************************************)
WORDS ==
    << <<97,98,97,110,100,111,110>>, <<97,98,105,108,105,116,121>>, <<97,98,108,101>>, <<97,98,111,117,116>>,  \* 0: abandon ability able about
       <<97,98,111,118,101>>, <<97,98,115,101,110,116>>, <<97,98,115,111,114,98>>, <<97,98,115,116,114,97,99,116>>,  \* 4: above absent absorb abstract
       <<97,98,115,117,114,100>>, <<97,98,117,115,101>>, <<97,99,99,101,115,115>>, <<97,99,99,105,100,101,110,116>>,  \* 8: absurd abuse access accident
       <<97,99,99,111,117,110,116>>, <<97,99,99,117,115,101>>, <<97,99,104,105,101,118,101>>, <<97,99,105,100>>,  \* 12: account accuse achieve acid
       <<97,99,111,117,115,116,105,99>>, <<97,99,113,117,105,114,101>>, <<97,99,114,111,115,115>>, <<97,99,116>>,  \* 16: acoustic acquire across act
       <<97,99,116,105,111,110>>, <<97,99,116,111,114>>, <<97,99,116,114,101,115,115>>, <<97,99,116,117,97,108>>,  \* 20: action actor actress actual
       <<97,100,97,112,116>>, <<97,100,100>>, <<97,100,100,105,99,116>>, <<97,100,100,114,101,115,115>>,  \* 24: adapt add addict address
       <<97,100,106,117,115,116>>, <<97,100,109,105,116>>, <<97,100,117,108,116>>, <<97,100,118,97,110,99,101>>,  \* 28: adjust admit adult advance
       <<97,100,118,105,99,101>>, <<97,101,114,111,98,105,99>>, <<97,102,102,97,105,114>>, <<97,102,102,111,114,100>>,  \* 32: advice aerobic affair afford
       <<97,102,114,97,105,100>>, <<97,103,97,105,110>>, <<97,103,101>>, <<97,103,101,110,116>>,  \* 36: afraid again age agent
       <<97,103,114,101,101>>, <<97,104,101,97,100>>, <<97,105,109>>, <<97,105,114>>,  \* 40: agree ahead aim air
       <<97,105,114,112,111,114,116>>, <<97,105,115,108,101>>, <<97,108,97,114,109>>, <<97,108,98,117,109>>,  \* 44: airport aisle alarm album
       <<97,108,99,111,104,111,108>>, <<97,108,101,114,116>>, <<97,108,105,101,110>>, <<97,108,108>>,  \* 48: alcohol alert alien all
       <<97,108,108,101,121>>, <<97,108,108,111,119>>, <<97,108,109,111,115,116>>, <<97,108,111,110,101>>,  \* 52: alley allow almost alone
       <<97,108,112,104,97>>, <<97,108,114,101,97,100,121>>, <<97,108,115,111>>, <<97,108,116,101,114>>,  \* 56: alpha already also alter
       <<97,108,119,97,121,115>>, <<97,109,97,116,101,117,114>>, <<97,109,97,122,105,110,103>>, <<97,109,111,110,103>>,  \* 60: always amateur amazing among
       <<97,109,111,117,110,116>>, <<97,109,117,115,101,100>>, <<97,110,97,108,121,115,116>>, <<97,110,99,104,111,114>>,  \* 64: amount amused analyst anchor
       <<97,110,99,105,101,110,116>>, <<97,110,103,101,114>>, <<97,110,103,108,101>>, <<97,110,103,114,121>>,  \* 68: ancient anger angle angry
       <<97,110,105,109,97,108>>, <<97,110,107,108,101>>, <<97,110,110,111,117,110,99,101>>, <<97,110,110,117,97,108>>,  \* 72: animal ankle announce annual
       <<97,110,111,116,104,101,114>>, <<97,110,115,119,101,114>>, <<97,110,116,101,110,110,97>>, <<97,110,116,105,113,117,101>>,  \* 76: another answer antenna antique
       <<97,110,120,105,101,116,121>>, <<97,110,121>>, <<97,112,97,114,116>>, <<97,112,111,108,111,103,121>>,  \* 80: anxiety any apart apology
       <<97,112,112,101,97,114>>, <<97,112,112,108,101>>, <<97,112,112,114,111,118,101>>, <<97,112,114,105,108>>,  \* 84: appear apple approve april
       <<97,114,99,104>>, <<97,114,99,116,105,99>>, <<97,114,101,97>>, <<97,114,101,110,97>>,  \* 88: arch arctic area arena
       <<97,114,103,117,101>>, <<97,114,109>>, <<97,114,109,101,100>>, <<97,114,109,111,114>>,  \* 92: argue arm armed armor
       <<97,114,109,121>>, <<97,114,111,117,110,100>>, <<97,114,114,97,110,103,101>>, <<97,114,114,101,115,116>>,  \* 96: army around arrange arrest
       <<97,114,114,105,118,101>>, <<97,114,114,111,119>>, <<97,114,116>>, <<97,114,116,101,102,97,99,116>>,  \* 100: arrive arrow art artefact
       <<97,114,116,105,115,116>>, <<97,114,116,119,111,114,107>>, <<97,115,107>>, <<97,115,112,101,99,116>>,  \* 104: artist artwork ask aspect
       <<97,115,115,97,117,108,116>>, <<97,115,115,101,116>>, <<97,115,115,105,115,116>>, <<97,115,115,117,109,101>>,  \* 108: assault asset assist assume
       <<97,115,116,104,109,97>>, <<97,116,104,108,101,116,101>>, <<97,116,111,109>>, <<97,116,116,97,99,107>>,  \* 112: asthma athlete atom attack
       <<97,116,116,101,110,100>>, <<97,116,116,105,116,117,100,101>>, <<97,116,116,114,97,99,116>>, <<97,117,99,116,105,111,110>>,  \* 116: attend attitude attract auction
       <<97,117,100,105,116>>, <<97,117,103,117,115,116>>, <<97,117,110,116>>, <<97,117,116,104,111,114>>,  \* 120: audit august aunt author
       <<97,117,116,111>>, <<97,117,116,117,109,110>>, <<97,118,101,114,97,103,101>>, <<97,118,111,99,97,100,111>>,  \* 124: auto autumn average avocado
       <<97,118,111,105,100>>, <<97,119,97,107,101>>, <<97,119,97,114,101>>, <<97,119,97,121>>,  \* 128: avoid awake aware away
       <<97,119,101,115,111,109,101>>, <<97,119,102,117,108>>, <<97,119,107,119,97,114,100>>, <<97,120,105,115>>,  \* 132: awesome awful awkward axis
       <<98,97,98,121>>, <<98,97,99,104,101,108,111,114>>, <<98,97,99,111,110>>, <<98,97,100,103,101>>,  \* 136: baby bachelor bacon badge
       <<98,97,103>>, <<98,97,108,97,110,99,101>>, <<98,97,108,99,111,110,121>>, <<98,97,108,108>>,  \* 140: bag balance balcony ball
       <<98,97,109,98,111,111>>, <<98,97,110,97,110,97>>, <<98,97,110,110,101,114>>, <<98,97,114>>,  \* 144: bamboo banana banner bar
       <<98,97,114,101,108,121>>, <<98,97,114,103,97,105,110>>, <<98,97,114,114,101,108>>, <<98,97,115,101>>,  \* 148: barely bargain barrel base
       <<98,97,115,105,99>>, <<98,97,115,107,101,116>>, <<98,97,116,116,108,101>>, <<98,101,97,99,104>>,  \* 152: basic basket battle beach
       <<98,101,97,110>>, <<98,101,97,117,116,121>>, <<98,101,99,97,117,115,101>>, <<98,101,99,111,109,101>>,  \* 156: bean beauty because become
       <<98,101,101,102>>, <<98,101,102,111,114,101>>, <<98,101,103,105,110>>, <<98,101,104,97,118,101>>,  \* 160: beef before begin behave
       <<98,101,104,105,110,100>>, <<98,101,108,105,101,118,101>>, <<98,101,108,111,119>>, <<98,101,108,116>>,  \* 164: behind believe below belt
       <<98,101,110,99,104>>, <<98,101,110,101,102,105,116>>, <<98,101,115,116>>, <<98,101,116,114,97,121>>,  \* 168: bench benefit best betray
       <<98,101,116,116,101,114>>, <<98,101,116,119,101,101,110>>, <<98,101,121,111,110,100>>, <<98,105,99,121,99,108,101>>,  \* 172: better between beyond bicycle
       <<98,105,100>>, <<98,105,107,101>>, <<98,105,110,100>>, <<98,105,111,108,111,103,121>>,  \* 176: bid bike bind biology
       <<98,105,114,100>>, <<98,105,114,116,104>>, <<98,105,116,116,101,114>>, <<98,108,97,99,107>>,  \* 180: bird birth bitter black
       <<98,108,97,100,101>>, <<98,108,97,109,101>>, <<98,108,97,110,107,101,116>>, <<98,108,97,115,116>>,  \* 184: blade blame blanket blast
       <<98,108,101,97,107>>, <<98,108,101,115,115>>, <<98,108,105,110,100>>, <<98,108,111,111,100>>,  \* 188: bleak bless blind blood
       <<98,108,111,115,115,111,109>>, <<98,108,111,117,115,101>>, <<98,108,117,101>>, <<98,108,117,114>>,  \* 192: blossom blouse blue blur
       <<98,108,117,115,104>>, <<98,111,97,114,100>>, <<98,111,97,116>>, <<98,111,100,121>>,  \* 196: blush board boat body
       <<98,111,105,108>>, <<98,111,109,98>>, <<98,111,110,101>>, <<98,111,110,117,115>>,  \* 200: boil bomb bone bonus
       <<98,111,111,107>>, <<98,111,111,115,116>>, <<98,111,114,100,101,114>>, <<98,111,114,105,110,103>>,  \* 204: book boost border boring
       <<98,111,114,114,111,119>>, <<98,111,115,115>>, <<98,111,116,116,111,109>>, <<98,111,117,110,99,101>>,  \* 208: borrow boss bottom bounce
       <<98,111,120>>, <<98,111,121>>, <<98,114,97,99,107,101,116>>, <<98,114,97,105,110>>,  \* 212: box boy bracket brain
       <<98,114,97,110,100>>, <<98,114,97,115,115>>, <<98,114,97,118,101>>, <<98,114,101,97,100>>,  \* 216: brand brass brave bread
       <<98,114,101,101,122,101>>, <<98,114,105,99,107>>, <<98,114,105,100,103,101>>, <<98,114,105,101,102>>,  \* 220: breeze brick bridge brief
       <<98,114,105,103,104,116>>, <<98,114,105,110,103>>, <<98,114,105,115,107>>, <<98,114,111,99,99,111,108,105>>,  \* 224: bright bring brisk broccoli
       <<98,114,111,107,101,110>>, <<98,114,111,110,122,101>>, <<98,114,111,111,109>>, <<98,114,111,116,104,101,114>>,  \* 228: broken bronze broom brother
       <<98,114,111,119,110>>, <<98,114,117,115,104>>, <<98,117,98,98,108,101>>, <<98,117,100,100,121>>,  \* 232: brown brush bubble buddy
       <<98,117,100,103,101,116>>, <<98,117,102,102,97,108,111>>, <<98,117,105,108,100>>, <<98,117,108,98>>,  \* 236: budget buffalo build bulb
       <<98,117,108,107>>, <<98,117,108,108,101,116>>, <<98,117,110,100,108,101>>, <<98,117,110,107,101,114>>,  \* 240: bulk bullet bundle bunker
       <<98,117,114,100,101,110>>, <<98,117,114,103,101,114>>, <<98,117,114,115,116>>, <<98,117,115>>,  \* 244: burden burger burst bus
       <<98,117,115,105,110,101,115,115>>, <<98,117,115,121>>, <<98,117,116,116,101,114>>, <<98,117,121,101,114>>,  \* 248: business busy butter buyer
       <<98,117,122,122>>, <<99,97,98,98,97,103,101>>, <<99,97,98,105,110>>, <<99,97,98,108,101>>,  \* 252: buzz cabbage cabin cable
       <<99,97,99,116,117,115>>, <<99,97,103,101>>, <<99,97,107,101>>, <<99,97,108,108>>,  \* 256: cactus cage cake call
       <<99,97,108,109>>, <<99,97,109,101,114,97>>, <<99,97,109,112>>, <<99,97,110>>,  \* 260: calm camera camp can
       <<99,97,110,97,108>>, <<99,97,110,99,101,108>>, <<99,97,110,100,121>>, <<99,97,110,110,111,110>>,  \* 264: canal cancel candy cannon
       <<99,97,110,111,101>>, <<99,97,110,118,97,115>>, <<99,97,110,121,111,110>>, <<99,97,112,97,98,108,101>>,  \* 268: canoe canvas canyon capable
       <<99,97,112,105,116,97,108>>, <<99,97,112,116,97,105,110>>, <<99,97,114>>, <<99,97,114,98,111,110>>,  \* 272: capital captain car carbon
       <<99,97,114,100>>, <<99,97,114,103,111>>, <<99,97,114,112,101,116>>, <<99,97,114,114,121>>,  \* 276: card cargo carpet carry
       <<99,97,114,116>>, <<99,97,115,101>>, <<99,97,115,104>>, <<99,97,115,105,110,111>>,  \* 280: cart case cash casino
       <<99,97,115,116,108,101>>, <<99,97,115,117,97,108>>, <<99,97,116>>, <<99,97,116,97,108,111,103>>,  \* 284: castle casual cat catalog
       <<99,97,116,99,104>>, <<99,97,116,101,103,111,114,121>>, <<99,97,116,116,108,101>>, <<99,97,117,103,104,116>>,  \* 288: catch category cattle caught
       <<99,97,117,115,101>>, <<99,97,117,116,105,111,110>>, <<99,97,118,101>>, <<99,101,105,108,105,110,103>>,  \* 292: cause caution cave ceiling
       <<99,101,108,101,114,121>>, <<99,101,109,101,110,116>>, <<99,101,110,115,117,115>>, <<99,101,110,116,117,114,121>>,  \* 296: celery cement census century
       <<99,101,114,101,97,108>>, <<99,101,114,116,97,105,110>>, <<99,104,97,105,114>>, <<99,104,97,108,107>>,  \* 300: cereal certain chair chalk
       <<99,104,97,109,112,105,111,110>>, <<99,104,97,110,103,101>>, <<99,104,97,111,115>>, <<99,104,97,112,116,101,114>>,  \* 304: champion change chaos chapter
       <<99,104,97,114,103,101>>, <<99,104,97,115,101>>, <<99,104,97,116>>, <<99,104,101,97,112>>,  \* 308: charge chase chat cheap
       <<99,104,101,99,107>>, <<99,104,101,101,115,101>>, <<99,104,101,102>>, <<99,104,101,114,114,121>>,  \* 312: check cheese chef cherry
       <<99,104,101,115,116>>, <<99,104,105,99,107,101,110>>, <<99,104,105,101,102>>, <<99,104,105,108,100>>,  \* 316: chest chicken chief child
       <<99,104,105,109,110,101,121>>, <<99,104,111,105,99,101>>, <<99,104,111,111,115,101>>, <<99,104,114,111,110,105,99>>,  \* 320: chimney choice choose chronic
       <<99,104,117,99,107,108,101>>, <<99,104,117,110,107>>, <<99,104,117,114,110>>, <<99,105,103,97,114>>,  \* 324: chuckle chunk churn cigar
       <<99,105,110,110,97,109,111,110>>, <<99,105,114,99,108,101>>, <<99,105,116,105,122,101,110>>, <<99,105,116,121>>,  \* 328: cinnamon circle citizen city
       <<99,105,118,105,108>>, <<99,108,97,105,109>>, <<99,108,97,112>>, <<99,108,97,114,105,102,121>>,  \* 332: civil claim clap clarify
       <<99,108,97,119>>, <<99,108,97,121>>, <<99,108,101,97,110>>, <<99,108,101,114,107>>,  \* 336: claw clay clean clerk
       <<99,108,101,118,101,114>>, <<99,108,105,99,107>>, <<99,108,105,101,110,116>>, <<99,108,105,102,102>>,  \* 340: clever click client cliff
       <<99,108,105,109,98>>, <<99,108,105,110,105,99>>, <<99,108,105,112>>, <<99,108,111,99,107>>,  \* 344: climb clinic clip clock
       <<99,108,111,103>>, <<99,108,111,115,101>>, <<99,108,111,116,104>>, <<99,108,111,117,100>>,  \* 348: clog close cloth cloud
       <<99,108,111,119,110>>, <<99,108,117,98>>, <<99,108,117,109,112>>, <<99,108,117,115,116,101,114>>,  \* 352: clown club clump cluster
       <<99,108,117,116,99,104>>, <<99,111,97,99,104>>, <<99,111,97,115,116>>, <<99,111,99,111,110,117,116>>,  \* 356: clutch coach coast coconut
       <<99,111,100,101>>, <<99,111,102,102,101,101>>, <<99,111,105,108>>, <<99,111,105,110>>,  \* 360: code coffee coil coin
       <<99,111,108,108,101,99,116>>, <<99,111,108,111,114>>, <<99,111,108,117,109,110>>, <<99,111,109,98,105,110,101>>,  \* 364: collect color column combine
       <<99,111,109,101>>, <<99,111,109,102,111,114,116>>, <<99,111,109,105,99>>, <<99,111,109,109,111,110>>,  \* 368: come comfort comic common
       <<99,111,109,112,97,110,121>>, <<99,111,110,99,101,114,116>>, <<99,111,110,100,117,99,116>>, <<99,111,110,102,105,114,109>>,  \* 372: company concert conduct confirm
       <<99,111,110,103,114,101,115,115>>, <<99,111,110,110,101,99,116>>, <<99,111,110,115,105,100,101,114>>, <<99,111,110,116,114,111,108>>,  \* 376: congress connect consider control
       <<99,111,110,118,105,110,99,101>>, <<99,111,111,107>>, <<99,111,111,108>>, <<99,111,112,112,101,114>>,  \* 380: convince cook cool copper
       <<99,111,112,121>>, <<99,111,114,97,108>>, <<99,111,114,101>>, <<99,111,114,110>>,  \* 384: copy coral core corn
       <<99,111,114,114,101,99,116>>, <<99,111,115,116>>, <<99,111,116,116,111,110>>, <<99,111,117,99,104>>,  \* 388: correct cost cotton couch
       <<99,111,117,110,116,114,121>>, <<99,111,117,112,108,101>>, <<99,111,117,114,115,101>>, <<99,111,117,115,105,110>>,  \* 392: country couple course cousin
       <<99,111,118,101,114>>, <<99,111,121,111,116,101>>, <<99,114,97,99,107>>, <<99,114,97,100,108,101>>,  \* 396: cover coyote crack cradle
       <<99,114,97,102,116>>, <<99,114,97,109>>, <<99,114,97,110,101>>, <<99,114,97,115,104>>,  \* 400: craft cram crane crash
       <<99,114,97,116,101,114>>, <<99,114,97,119,108>>, <<99,114,97,122,121>>, <<99,114,101,97,109>>,  \* 404: crater crawl crazy cream
       <<99,114,101,100,105,116>>, <<99,114,101,101,107>>, <<99,114,101,119>>, <<99,114,105,99,107,101,116>>,  \* 408: credit creek crew cricket
       <<99,114,105,109,101>>, <<99,114,105,115,112>>, <<99,114,105,116,105,99>>, <<99,114,111,112>>,  \* 412: crime crisp critic crop
       <<99,114,111,115,115>>, <<99,114,111,117,99,104>>, <<99,114,111,119,100>>, <<99,114,117,99,105,97,108>>,  \* 416: cross crouch crowd crucial
       <<99,114,117,101,108>>, <<99,114,117,105,115,101>>, <<99,114,117,109,98,108,101>>, <<99,114,117,110,99,104>>,  \* 420: cruel cruise crumble crunch
       <<99,114,117,115,104>>, <<99,114,121>>, <<99,114,121,115,116,97,108>>, <<99,117,98,101>>,  \* 424: crush cry crystal cube
       <<99,117,108,116,117,114,101>>, <<99,117,112>>, <<99,117,112,98,111,97,114,100>>, <<99,117,114,105,111,117,115>>,  \* 428: culture cup cupboard curious
       <<99,117,114,114,101,110,116>>, <<99,117,114,116,97,105,110>>, <<99,117,114,118,101>>, <<99,117,115,104,105,111,110>>,  \* 432: current curtain curve cushion
       <<99,117,115,116,111,109>>, <<99,117,116,101>>, <<99,121,99,108,101>>, <<100,97,100>>,  \* 436: custom cute cycle dad
       <<100,97,109,97,103,101>>, <<100,97,109,112>>, <<100,97,110,99,101>>, <<100,97,110,103,101,114>>,  \* 440: damage damp dance danger
       <<100,97,114,105,110,103>>, <<100,97,115,104>>, <<100,97,117,103,104,116,101,114>>, <<100,97,119,110>>,  \* 444: daring dash daughter dawn
       <<100,97,121>>, <<100,101,97,108>>, <<100,101,98,97,116,101>>, <<100,101,98,114,105,115>>,  \* 448: day deal debate debris
       <<100,101,99,97,100,101>>, <<100,101,99,101,109,98,101,114>>, <<100,101,99,105,100,101>>, <<100,101,99,108,105,110,101>>,  \* 452: decade december decide decline
       <<100,101,99,111,114,97,116,101>>, <<100,101,99,114,101,97,115,101>>, <<100,101,101,114>>, <<100,101,102,101,110,115,101>>,  \* 456: decorate decrease deer defense
       <<100,101,102,105,110,101>>, <<100,101,102,121>>, <<100,101,103,114,101,101>>, <<100,101,108,97,121>>,  \* 460: define defy degree delay
       <<100,101,108,105,118,101,114>>, <<100,101,109,97,110,100>>, <<100,101,109,105,115,101>>, <<100,101,110,105,97,108>>,  \* 464: deliver demand demise denial
       <<100,101,110,116,105,115,116>>, <<100,101,110,121>>, <<100,101,112,97,114,116>>, <<100,101,112,101,110,100>>,  \* 468: dentist deny depart depend
       <<100,101,112,111,115,105,116>>, <<100,101,112,116,104>>, <<100,101,112,117,116,121>>, <<100,101,114,105,118,101>>,  \* 472: deposit depth deputy derive
       <<100,101,115,99,114,105,98,101>>, <<100,101,115,101,114,116>>, <<100,101,115,105,103,110>>, <<100,101,115,107>>,  \* 476: describe desert design desk
       <<100,101,115,112,97,105,114>>, <<100,101,115,116,114,111,121>>, <<100,101,116,97,105,108>>, <<100,101,116,101,99,116>>,  \* 480: despair destroy detail detect
       <<100,101,118,101,108,111,112>>, <<100,101,118,105,99,101>>, <<100,101,118,111,116,101>>, <<100,105,97,103,114,97,109>>,  \* 484: develop device devote diagram
       <<100,105,97,108>>, <<100,105,97,109,111,110,100>>, <<100,105,97,114,121>>, <<100,105,99,101>>,  \* 488: dial diamond diary dice
       <<100,105,101,115,101,108>>, <<100,105,101,116>>, <<100,105,102,102,101,114>>, <<100,105,103,105,116,97,108>>,  \* 492: diesel diet differ digital
       <<100,105,103,110,105,116,121>>, <<100,105,108,101,109,109,97>>, <<100,105,110,110,101,114>>, <<100,105,110,111,115,97,117,114>>,  \* 496: dignity dilemma dinner dinosaur
       <<100,105,114,101,99,116>>, <<100,105,114,116>>, <<100,105,115,97,103,114,101,101>>, <<100,105,115,99,111,118,101,114>>,  \* 500: direct dirt disagree discover
       <<100,105,115,101,97,115,101>>, <<100,105,115,104>>, <<100,105,115,109,105,115,115>>, <<100,105,115,111,114,100,101,114>>,  \* 504: disease dish dismiss disorder
       <<100,105,115,112,108,97,121>>, <<100,105,115,116,97,110,99,101>>, <<100,105,118,101,114,116>>, <<100,105,118,105,100,101>>,  \* 508: display distance divert divide
       <<100,105,118,111,114,99,101>>, <<100,105,122,122,121>>, <<100,111,99,116,111,114>>, <<100,111,99,117,109,101,110,116>>,  \* 512: divorce dizzy doctor document
       <<100,111,103>>, <<100,111,108,108>>, <<100,111,108,112,104,105,110>>, <<100,111,109,97,105,110>>,  \* 516: dog doll dolphin domain
       <<100,111,110,97,116,101>>, <<100,111,110,107,101,121>>, <<100,111,110,111,114>>, <<100,111,111,114>>,  \* 520: donate donkey donor door
       <<100,111,115,101>>, <<100,111,117,98,108,101>>, <<100,111,118,101>>, <<100,114,97,102,116>>,  \* 524: dose double dove draft
       <<100,114,97,103,111,110>>, <<100,114,97,109,97>>, <<100,114,97,115,116,105,99>>, <<100,114,97,119>>,  \* 528: dragon drama drastic draw
       <<100,114,101,97,109>>, <<100,114,101,115,115>>, <<100,114,105,102,116>>, <<100,114,105,108,108>>,  \* 532: dream dress drift drill
       <<100,114,105,110,107>>, <<100,114,105,112>>, <<100,114,105,118,101>>, <<100,114,111,112>>,  \* 536: drink drip drive drop
       <<100,114,117,109>>, <<100,114,121>>, <<100,117,99,107>>, <<100,117,109,98>>,  \* 540: drum dry duck dumb
       <<100,117,110,101>>, <<100,117,114,105,110,103>>, <<100,117,115,116>>, <<100,117,116,99,104>>,  \* 544: dune during dust dutch
       <<100,117,116,121>>, <<100,119,97,114,102>>, <<100,121,110,97,109,105,99>>, <<101,97,103,101,114>>,  \* 548: duty dwarf dynamic eager
       <<101,97,103,108,101>>, <<101,97,114,108,121>>, <<101,97,114,110>>, <<101,97,114,116,104>>,  \* 552: eagle early earn earth
       <<101,97,115,105,108,121>>, <<101,97,115,116>>, <<101,97,115,121>>, <<101,99,104,111>>,  \* 556: easily east easy echo
       <<101,99,111,108,111,103,121>>, <<101,99,111,110,111,109,121>>, <<101,100,103,101>>, <<101,100,105,116>>,  \* 560: ecology economy edge edit
       <<101,100,117,99,97,116,101>>, <<101,102,102,111,114,116>>, <<101,103,103>>, <<101,105,103,104,116>>,  \* 564: educate effort egg eight
       <<101,105,116,104,101,114>>, <<101,108,98,111,119>>, <<101,108,100,101,114>>, <<101,108,101,99,116,114,105,99>>,  \* 568: either elbow elder electric
       <<101,108,101,103,97,110,116>>, <<101,108,101,109,101,110,116>>, <<101,108,101,112,104,97,110,116>>, <<101,108,101,118,97,116,111,114>>,  \* 572: elegant element elephant elevator
       <<101,108,105,116,101>>, <<101,108,115,101>>, <<101,109,98,97,114,107>>, <<101,109,98,111,100,121>>,  \* 576: elite else embark embody
       <<101,109,98,114,97,99,101>>, <<101,109,101,114,103,101>>, <<101,109,111,116,105,111,110>>, <<101,109,112,108,111,121>>,  \* 580: embrace emerge emotion employ
       <<101,109,112,111,119,101,114>>, <<101,109,112,116,121>>, <<101,110,97,98,108,101>>, <<101,110,97,99,116>>,  \* 584: empower empty enable enact
       <<101,110,100>>, <<101,110,100,108,101,115,115>>, <<101,110,100,111,114,115,101>>, <<101,110,101,109,121>>,  \* 588: end endless endorse enemy
       <<101,110,101,114,103,121>>, <<101,110,102,111,114,99,101>>, <<101,110,103,97,103,101>>, <<101,110,103,105,110,101>>,  \* 592: energy enforce engage engine
       <<101,110,104,97,110,99,101>>, <<101,110,106,111,121>>, <<101,110,108,105,115,116>>, <<101,110,111,117,103,104>>,  \* 596: enhance enjoy enlist enough
       <<101,110,114,105,99,104>>, <<101,110,114,111,108,108>>, <<101,110,115,117,114,101>>, <<101,110,116,101,114>>,  \* 600: enrich enroll ensure enter
       <<101,110,116,105,114,101>>, <<101,110,116,114,121>>, <<101,110,118,101,108,111,112,101>>, <<101,112,105,115,111,100,101>>,  \* 604: entire entry envelope episode
       <<101,113,117,97,108>>, <<101,113,117,105,112>>, <<101,114,97>>, <<101,114,97,115,101>>,  \* 608: equal equip era erase
       <<101,114,111,100,101>>, <<101,114,111,115,105,111,110>>, <<101,114,114,111,114>>, <<101,114,117,112,116>>,  \* 612: erode erosion error erupt
       <<101,115,99,97,112,101>>, <<101,115,115,97,121>>, <<101,115,115,101,110,99,101>>, <<101,115,116,97,116,101>>,  \* 616: escape essay essence estate
       <<101,116,101,114,110,97,108>>, <<101,116,104,105,99,115>>, <<101,118,105,100,101,110,99,101>>, <<101,118,105,108>>,  \* 620: eternal ethics evidence evil
       <<101,118,111,107,101>>, <<101,118,111,108,118,101>>, <<101,120,97,99,116>>, <<101,120,97,109,112,108,101>>,  \* 624: evoke evolve exact example
       <<101,120,99,101,115,115>>, <<101,120,99,104,97,110,103,101>>, <<101,120,99,105,116,101>>, <<101,120,99,108,117,100,101>>,  \* 628: excess exchange excite exclude
       <<101,120,99,117,115,101>>, <<101,120,101,99,117,116,101>>, <<101,120,101,114,99,105,115,101>>, <<101,120,104,97,117,115,116>>,  \* 632: excuse execute exercise exhaust
       <<101,120,104,105,98,105,116>>, <<101,120,105,108,101>>, <<101,120,105,115,116>>, <<101,120,105,116>>,  \* 636: exhibit exile exist exit
       <<101,120,111,116,105,99>>, <<101,120,112,97,110,100>>, <<101,120,112,101,99,116>>, <<101,120,112,105,114,101>>,  \* 640: exotic expand expect expire
       <<101,120,112,108,97,105,110>>, <<101,120,112,111,115,101>>, <<101,120,112,114,101,115,115>>, <<101,120,116,101,110,100>>,  \* 644: explain expose express extend
       <<101,120,116,114,97>>, <<101,121,101>>, <<101,121,101,98,114,111,119>>, <<102,97,98,114,105,99>>,  \* 648: extra eye eyebrow fabric
       <<102,97,99,101>>, <<102,97,99,117,108,116,121>>, <<102,97,100,101>>, <<102,97,105,110,116>>,  \* 652: face faculty fade faint
       <<102,97,105,116,104>>, <<102,97,108,108>>, <<102,97,108,115,101>>, <<102,97,109,101>>,  \* 656: faith fall false fame
       <<102,97,109,105,108,121>>, <<102,97,109,111,117,115>>, <<102,97,110>>, <<102,97,110,99,121>>,  \* 660: family famous fan fancy
       <<102,97,110,116,97,115,121>>, <<102,97,114,109>>, <<102,97,115,104,105,111,110>>, <<102,97,116>>,  \* 664: fantasy farm fashion fat
       <<102,97,116,97,108>>, <<102,97,116,104,101,114>>, <<102,97,116,105,103,117,101>>, <<102,97,117,108,116>>,  \* 668: fatal father fatigue fault
       <<102,97,118,111,114,105,116,101>>, <<102,101,97,116,117,114,101>>, <<102,101,98,114,117,97,114,121>>, <<102,101,100,101,114,97,108>>,  \* 672: favorite feature february federal
       <<102,101,101>>, <<102,101,101,100>>, <<102,101,101,108>>, <<102,101,109,97,108,101>>,  \* 676: fee feed feel female
       <<102,101,110,99,101>>, <<102,101,115,116,105,118,97,108>>, <<102,101,116,99,104>>, <<102,101,118,101,114>>,  \* 680: fence festival fetch fever
       <<102,101,119>>, <<102,105,98,101,114>>, <<102,105,99,116,105,111,110>>, <<102,105,101,108,100>>,  \* 684: few fiber fiction field
       <<102,105,103,117,114,101>>, <<102,105,108,101>>, <<102,105,108,109>>, <<102,105,108,116,101,114>>,  \* 688: figure file film filter
       <<102,105,110,97,108>>, <<102,105,110,100>>, <<102,105,110,101>>, <<102,105,110,103,101,114>>,  \* 692: final find fine finger
       <<102,105,110,105,115,104>>, <<102,105,114,101>>, <<102,105,114,109>>, <<102,105,114,115,116>>,  \* 696: finish fire firm first
       <<102,105,115,99,97,108>>, <<102,105,115,104>>, <<102,105,116>>, <<102,105,116,110,101,115,115>>,  \* 700: fiscal fish fit fitness
       <<102,105,120>>, <<102,108,97,103>>, <<102,108,97,109,101>>, <<102,108,97,115,104>>,  \* 704: fix flag flame flash
       <<102,108,97,116>>, <<102,108,97,118,111,114>>, <<102,108,101,101>>, <<102,108,105,103,104,116>>,  \* 708: flat flavor flee flight
       <<102,108,105,112>>, <<102,108,111,97,116>>, <<102,108,111,99,107>>, <<102,108,111,111,114>>,  \* 712: flip float flock floor
       <<102,108,111,119,101,114>>, <<102,108,117,105,100>>, <<102,108,117,115,104>>, <<102,108,121>>,  \* 716: flower fluid flush fly
       <<102,111,97,109>>, <<102,111,99,117,115>>, <<102,111,103>>, <<102,111,105,108>>,  \* 720: foam focus fog foil
       <<102,111,108,100>>, <<102,111,108,108,111,119>>, <<102,111,111,100>>, <<102,111,111,116>>,  \* 724: fold follow food foot
       <<102,111,114,99,101>>, <<102,111,114,101,115,116>>, <<102,111,114,103,101,116>>, <<102,111,114,107>>,  \* 728: force forest forget fork
       <<102,111,114,116,117,110,101>>, <<102,111,114,117,109>>, <<102,111,114,119,97,114,100>>, <<102,111,115,115,105,108>>,  \* 732: fortune forum forward fossil
       <<102,111,115,116,101,114>>, <<102,111,117,110,100>>, <<102,111,120>>, <<102,114,97,103,105,108,101>>,  \* 736: foster found fox fragile
       <<102,114,97,109,101>>, <<102,114,101,113,117,101,110,116>>, <<102,114,101,115,104>>, <<102,114,105,101,110,100>>,  \* 740: frame frequent fresh friend
       <<102,114,105,110,103,101>>, <<102,114,111,103>>, <<102,114,111,110,116>>, <<102,114,111,115,116>>,  \* 744: fringe frog front frost
       <<102,114,111,119,110>>, <<102,114,111,122,101,110>>, <<102,114,117,105,116>>, <<102,117,101,108>>,  \* 748: frown frozen fruit fuel
       <<102,117,110>>, <<102,117,110,110,121>>, <<102,117,114,110,97,99,101>>, <<102,117,114,121>>,  \* 752: fun funny furnace fury
       <<102,117,116,117,114,101>>, <<103,97,100,103,101,116>>, <<103,97,105,110>>, <<103,97,108,97,120,121>>,  \* 756: future gadget gain galaxy
       <<103,97,108,108,101,114,121>>, <<103,97,109,101>>, <<103,97,112>>, <<103,97,114,97,103,101>>,  \* 760: gallery game gap garage
       <<103,97,114,98,97,103,101>>, <<103,97,114,100,101,110>>, <<103,97,114,108,105,99>>, <<103,97,114,109,101,110,116>>,  \* 764: garbage garden garlic garment
       <<103,97,115>>, <<103,97,115,112>>, <<103,97,116,101>>, <<103,97,116,104,101,114>>,  \* 768: gas gasp gate gather
       <<103,97,117,103,101>>, <<103,97,122,101>>, <<103,101,110,101,114,97,108>>, <<103,101,110,105,117,115>>,  \* 772: gauge gaze general genius
       <<103,101,110,114,101>>, <<103,101,110,116,108,101>>, <<103,101,110,117,105,110,101>>, <<103,101,115,116,117,114,101>>,  \* 776: genre gentle genuine gesture
       <<103,104,111,115,116>>, <<103,105,97,110,116>>, <<103,105,102,116>>, <<103,105,103,103,108,101>>,  \* 780: ghost giant gift giggle
       <<103,105,110,103,101,114>>, <<103,105,114,97,102,102,101>>, <<103,105,114,108>>, <<103,105,118,101>>,  \* 784: ginger giraffe girl give
       <<103,108,97,100>>, <<103,108,97,110,99,101>>, <<103,108,97,114,101>>, <<103,108,97,115,115>>,  \* 788: glad glance glare glass
       <<103,108,105,100,101>>, <<103,108,105,109,112,115,101>>, <<103,108,111,98,101>>, <<103,108,111,111,109>>,  \* 792: glide glimpse globe gloom
       <<103,108,111,114,121>>, <<103,108,111,118,101>>, <<103,108,111,119>>, <<103,108,117,101>>,  \* 796: glory glove glow glue
       <<103,111,97,116>>, <<103,111,100,100,101,115,115>>, <<103,111,108,100>>, <<103,111,111,100>>,  \* 800: goat goddess gold good
       <<103,111,111,115,101>>, <<103,111,114,105,108,108,97>>, <<103,111,115,112,101,108>>, <<103,111,115,115,105,112>>,  \* 804: goose gorilla gospel gossip
       <<103,111,118,101,114,110>>, <<103,111,119,110>>, <<103,114,97,98>>, <<103,114,97,99,101>>,  \* 808: govern gown grab grace
       <<103,114,97,105,110>>, <<103,114,97,110,116>>, <<103,114,97,112,101>>, <<103,114,97,115,115>>,  \* 812: grain grant grape grass
       <<103,114,97,118,105,116,121>>, <<103,114,101,97,116>>, <<103,114,101,101,110>>, <<103,114,105,100>>,  \* 816: gravity great green grid
       <<103,114,105,101,102>>, <<103,114,105,116>>, <<103,114,111,99,101,114,121>>, <<103,114,111,117,112>>,  \* 820: grief grit grocery group
       <<103,114,111,119>>, <<103,114,117,110,116>>, <<103,117,97,114,100>>, <<103,117,101,115,115>>,  \* 824: grow grunt guard guess
       <<103,117,105,100,101>>, <<103,117,105,108,116>>, <<103,117,105,116,97,114>>, <<103,117,110>>,  \* 828: guide guilt guitar gun
       <<103,121,109>>, <<104,97,98,105,116>>, <<104,97,105,114>>, <<104,97,108,102>>,  \* 832: gym habit hair half
       <<104,97,109,109,101,114>>, <<104,97,109,115,116,101,114>>, <<104,97,110,100>>, <<104,97,112,112,121>>,  \* 836: hammer hamster hand happy
       <<104,97,114,98,111,114>>, <<104,97,114,100>>, <<104,97,114,115,104>>, <<104,97,114,118,101,115,116>>,  \* 840: harbor hard harsh harvest
       <<104,97,116>>, <<104,97,118,101>>, <<104,97,119,107>>, <<104,97,122,97,114,100>>,  \* 844: hat have hawk hazard
       <<104,101,97,100>>, <<104,101,97,108,116,104>>, <<104,101,97,114,116>>, <<104,101,97,118,121>>,  \* 848: head health heart heavy
       <<104,101,100,103,101,104,111,103>>, <<104,101,105,103,104,116>>, <<104,101,108,108,111>>, <<104,101,108,109,101,116>>,  \* 852: hedgehog height hello helmet
       <<104,101,108,112>>, <<104,101,110>>, <<104,101,114,111>>, <<104,105,100,100,101,110>>,  \* 856: help hen hero hidden
       <<104,105,103,104>>, <<104,105,108,108>>, <<104,105,110,116>>, <<104,105,112>>,  \* 860: high hill hint hip
       <<104,105,114,101>>, <<104,105,115,116,111,114,121>>, <<104,111,98,98,121>>, <<104,111,99,107,101,121>>,  \* 864: hire history hobby hockey
       <<104,111,108,100>>, <<104,111,108,101>>, <<104,111,108,105,100,97,121>>, <<104,111,108,108,111,119>>,  \* 868: hold hole holiday hollow
       <<104,111,109,101>>, <<104,111,110,101,121>>, <<104,111,111,100>>, <<104,111,112,101>>,  \* 872: home honey hood hope
       <<104,111,114,110>>, <<104,111,114,114,111,114>>, <<104,111,114,115,101>>, <<104,111,115,112,105,116,97,108>>,  \* 876: horn horror horse hospital
       <<104,111,115,116>>, <<104,111,116,101,108>>, <<104,111,117,114>>, <<104,111,118,101,114>>,  \* 880: host hotel hour hover
       <<104,117,98>>, <<104,117,103,101>>, <<104,117,109,97,110>>, <<104,117,109,98,108,101>>,  \* 884: hub huge human humble
       <<104,117,109,111,114>>, <<104,117,110,100,114,101,100>>, <<104,117,110,103,114,121>>, <<104,117,110,116>>,  \* 888: humor hundred hungry hunt
       <<104,117,114,100,108,101>>, <<104,117,114,114,121>>, <<104,117,114,116>>, <<104,117,115,98,97,110,100>>,  \* 892: hurdle hurry hurt husband
       <<104,121,98,114,105,100>>, <<105,99,101>>, <<105,99,111,110>>, <<105,100,101,97>>,  \* 896: hybrid ice icon idea
       <<105,100,101,110,116,105,102,121>>, <<105,100,108,101>>, <<105,103,110,111,114,101>>, <<105,108,108>>,  \* 900: identify idle ignore ill
       <<105,108,108,101,103,97,108>>, <<105,108,108,110,101,115,115>>, <<105,109,97,103,101>>, <<105,109,105,116,97,116,101>>,  \* 904: illegal illness image imitate
       <<105,109,109,101,110,115,101>>, <<105,109,109,117,110,101>>, <<105,109,112,97,99,116>>, <<105,109,112,111,115,101>>,  \* 908: immense immune impact impose
       <<105,109,112,114,111,118,101>>, <<105,109,112,117,108,115,101>>, <<105,110,99,104>>, <<105,110,99,108,117,100,101>>,  \* 912: improve impulse inch include
       <<105,110,99,111,109,101>>, <<105,110,99,114,101,97,115,101>>, <<105,110,100,101,120>>, <<105,110,100,105,99,97,116,101>>,  \* 916: income increase index indicate
       <<105,110,100,111,111,114>>, <<105,110,100,117,115,116,114,121>>, <<105,110,102,97,110,116>>, <<105,110,102,108,105,99,116>>,  \* 920: indoor industry infant inflict
       <<105,110,102,111,114,109>>, <<105,110,104,97,108,101>>, <<105,110,104,101,114,105,116>>, <<105,110,105,116,105,97,108>>,  \* 924: inform inhale inherit initial
       <<105,110,106,101,99,116>>, <<105,110,106,117,114,121>>, <<105,110,109,97,116,101>>, <<105,110,110,101,114>>,  \* 928: inject injury inmate inner
       <<105,110,110,111,99,101,110,116>>, <<105,110,112,117,116>>, <<105,110,113,117,105,114,121>>, <<105,110,115,97,110,101>>,  \* 932: innocent input inquiry insane
       <<105,110,115,101,99,116>>, <<105,110,115,105,100,101>>, <<105,110,115,112,105,114,101>>, <<105,110,115,116,97,108,108>>,  \* 936: insect inside inspire install
       <<105,110,116,97,99,116>>, <<105,110,116,101,114,101,115,116>>, <<105,110,116,111>>, <<105,110,118,101,115,116>>,  \* 940: intact interest into invest
       <<105,110,118,105,116,101>>, <<105,110,118,111,108,118,101>>, <<105,114,111,110>>, <<105,115,108,97,110,100>>,  \* 944: invite involve iron island
       <<105,115,111,108,97,116,101>>, <<105,115,115,117,101>>, <<105,116,101,109>>, <<105,118,111,114,121>>,  \* 948: isolate issue item ivory
       <<106,97,99,107,101,116>>, <<106,97,103,117,97,114>>, <<106,97,114>>, <<106,97,122,122>>,  \* 952: jacket jaguar jar jazz
       <<106,101,97,108,111,117,115>>, <<106,101,97,110,115>>, <<106,101,108,108,121>>, <<106,101,119,101,108>>,  \* 956: jealous jeans jelly jewel
       <<106,111,98>>, <<106,111,105,110>>, <<106,111,107,101>>, <<106,111,117,114,110,101,121>>,  \* 960: job join joke journey
       <<106,111,121>>, <<106,117,100,103,101>>, <<106,117,105,99,101>>, <<106,117,109,112>>,  \* 964: joy judge juice jump
       <<106,117,110,103,108,101>>, <<106,117,110,105,111,114>>, <<106,117,110,107>>, <<106,117,115,116>>,  \* 968: jungle junior junk just
       <<107,97,110,103,97,114,111,111>>, <<107,101,101,110>>, <<107,101,101,112>>, <<107,101,116,99,104,117,112>>,  \* 972: kangaroo keen keep ketchup
       <<107,101,121>>, <<107,105,99,107>>, <<107,105,100>>, <<107,105,100,110,101,121>>,  \* 976: key kick kid kidney
       <<107,105,110,100>>, <<107,105,110,103,100,111,109>>, <<107,105,115,115>>, <<107,105,116>>,  \* 980: kind kingdom kiss kit
       <<107,105,116,99,104,101,110>>, <<107,105,116,101>>, <<107,105,116,116,101,110>>, <<107,105,119,105>>,  \* 984: kitchen kite kitten kiwi
       <<107,110,101,101>>, <<107,110,105,102,101>>, <<107,110,111,99,107>>, <<107,110,111,119>>,  \* 988: knee knife knock know
       <<108,97,98>>, <<108,97,98,101,108>>, <<108,97,98,111,114>>, <<108,97,100,100,101,114>>,  \* 992: lab label labor ladder
       <<108,97,100,121>>, <<108,97,107,101>>, <<108,97,109,112>>, <<108,97,110,103,117,97,103,101>>,  \* 996: lady lake lamp language
       <<108,97,112,116,111,112>>, <<108,97,114,103,101>>, <<108,97,116,101,114>>, <<108,97,116,105,110>>,  \* 1000: laptop large later latin
       <<108,97,117,103,104>>, <<108,97,117,110,100,114,121>>, <<108,97,118,97>>, <<108,97,119>>,  \* 1004: laugh laundry lava law
       <<108,97,119,110>>, <<108,97,119,115,117,105,116>>, <<108,97,121,101,114>>, <<108,97,122,121>>,  \* 1008: lawn lawsuit layer lazy
       <<108,101,97,100,101,114>>, <<108,101,97,102>>, <<108,101,97,114,110>>, <<108,101,97,118,101>>,  \* 1012: leader leaf learn leave
       <<108,101,99,116,117,114,101>>, <<108,101,102,116>>, <<108,101,103>>, <<108,101,103,97,108>>,  \* 1016: lecture left leg legal
       <<108,101,103,101,110,100>>, <<108,101,105,115,117,114,101>>, <<108,101,109,111,110>>, <<108,101,110,100>>,  \* 1020: legend leisure lemon lend
       <<108,101,110,103,116,104>>, <<108,101,110,115>>, <<108,101,111,112,97,114,100>>, <<108,101,115,115,111,110>>,  \* 1024: length lens leopard lesson
       <<108,101,116,116,101,114>>, <<108,101,118,101,108>>, <<108,105,97,114>>, <<108,105,98,101,114,116,121>>,  \* 1028: letter level liar liberty
       <<100,105,101,109,114,121>>, <<108,105,99,101,110,115,101>>, <<108,105,102,101>>, <<108,105,102,116>>,  \* 1032: diemry license life lift
       <<108,105,103,104,116>>, <<108,105,107,101>>, <<108,105,109,98>>, <<108,105,109,105,116>>,  \* 1036: light like limb limit
       <<108,105,110,107>>, <<108,105,111,110>>, <<108,105,113,117,105,100>>, <<108,105,115,116>>,  \* 1040: link lion liquid list
       <<108,105,116,116,108,101>>, <<108,105,118,101>>, <<108,105,122,97,114,100>>, <<108,111,97,100>>,  \* 1044: little live lizard load
       <<108,111,97,110>>, <<108,111,98,115,116,101,114>>, <<108,111,99,97,108>>, <<108,111,99,107>>,  \* 1048: loan lobster local lock
       <<108,111,103,105,99>>, <<108,111,110,101,108,121>>, <<108,111,110,103>>, <<108,111,111,112>>,  \* 1052: logic lonely long loop
       <<108,111,116,116,101,114,121>>, <<108,111,117,100>>, <<108,111,117,110,103,101>>, <<108,111,118,101>>,  \* 1056: lottery loud lounge love
       <<108,111,121,97,108>>, <<108,117,99,107,121>>, <<108,117,103,103,97,103,101>>, <<108,117,109,98,101,114>>,  \* 1060: loyal lucky luggage lumber
       <<108,117,110,97,114>>, <<108,117,110,99,104>>, <<108,117,120,117,114,121>>, <<108,121,114,105,99,115>>,  \* 1064: lunar lunch luxury lyrics
       <<109,97,99,104,105,110,101>>, <<109,97,100>>, <<109,97,103,105,99>>, <<109,97,103,110,101,116>>,  \* 1068: machine mad magic magnet
       <<109,97,105,100>>, <<109,97,105,108>>, <<109,97,105,110>>, <<109,97,106,111,114>>,  \* 1072: maid mail main major
       <<109,97,107,101>>, <<109,97,109,109,97,108>>, <<109,97,110>>, <<109,97,110,97,103,101>>,  \* 1076: make mammal man manage
       <<109,97,110,100,97,116,101>>, <<109,97,110,103,111>>, <<109,97,110,115,105,111,110>>, <<109,97,110,117,97,108>>,  \* 1080: mandate mango mansion manual
       <<109,97,112,108,101>>, <<109,97,114,98,108,101>>, <<109,97,114,99,104>>, <<109,97,114,103,105,110>>,  \* 1084: maple marble march margin
       <<109,97,114,105,110,101>>, <<109,97,114,107,101,116>>, <<109,97,114,114,105,97,103,101>>, <<109,97,115,107>>,  \* 1088: marine market marriage mask
       <<109,97,115,115>>, <<109,97,115,116,101,114>>, <<109,97,116,99,104>>, <<109,97,116,101,114,105,97,108>>,  \* 1092: mass master match material
       <<109,97,116,104>>, <<109,97,116,114,105,120>>, <<109,97,116,116,101,114>>, <<109,97,120,105,109,117,109>>,  \* 1096: math matrix matter maximum
       <<109,97,122,101>>, <<109,101,97,100,111,119>>, <<109,101,97,110>>, <<109,101,97,115,117,114,101>>,  \* 1100: maze meadow mean measure
       <<109,101,97,116>>, <<109,101,99,104,97,110,105,99>>, <<109,101,100,97,108>>, <<109,101,100,105,97>>,  \* 1104: meat mechanic medal media
       <<109,101,108,111,100,121>>, <<109,101,108,116>>, <<109,101,109,98,101,114>>, <<109,101,109,111,114,121>>,  \* 1108: melody melt member memory
       <<109,101,110,116,105,111,110>>, <<109,101,110,117>>, <<109,101,114,99,121>>, <<109,101,114,103,101>>,  \* 1112: mention menu mercy merge
       <<109,101,114,105,116>>, <<109,101,114,114,121>>, <<109,101,115,104>>, <<109,101,115,115,97,103,101>>,  \* 1116: merit merry mesh message
       <<109,101,116,97,108>>, <<109,101,116,104,111,100>>, <<109,105,100,100,108,101>>, <<109,105,100,110,105,103,104,116>>,  \* 1120: metal method middle midnight
       <<109,105,108,107>>, <<109,105,108,108,105,111,110>>, <<109,105,109,105,99>>, <<109,105,110,100>>,  \* 1124: milk million mimic mind
       <<109,105,110,105,109,117,109>>, <<109,105,110,111,114>>, <<109,105,110,117,116,101>>, <<109,105,114,97,99,108,101>>,  \* 1128: minimum minor minute miracle
       <<109,105,114,114,111,114>>, <<109,105,115,101,114,121>>, <<109,105,115,115>>, <<109,105,115,116,97,107,101>>,  \* 1132: mirror misery miss mistake
       <<109,105,120>>, <<109,105,120,101,100>>, <<109,105,120,116,117,114,101>>, <<109,111,98,105,108,101>>,  \* 1136: mix mixed mixture mobile
       <<109,111,100,101,108>>, <<109,111,100,105,102,121>>, <<109,111,109>>, <<109,111,109,101,110,116>>,  \* 1140: model modify mom moment
       <<109,111,110,105,116,111,114>>, <<109,111,110,107,101,121>>, <<109,111,110,115,116,101,114>>, <<109,111,110,116,104>>,  \* 1144: monitor monkey monster month
       <<109,111,111,110>>, <<109,111,114,97,108>>, <<109,111,114,101>>, <<109,111,114,110,105,110,103>>,  \* 1148: moon moral more morning
       <<109,111,115,113,117,105,116,111>>, <<109,111,116,104,101,114>>, <<109,111,116,105,111,110>>, <<109,111,116,111,114>>,  \* 1152: mosquito mother motion motor
       <<109,111,117,110,116,97,105,110>>, <<109,111,117,115,101>>, <<109,111,118,101>>, <<109,111,118,105,101>>,  \* 1156: mountain mouse move movie
       <<109,117,99,104>>, <<109,117,102,102,105,110>>, <<109,117,108,101>>, <<109,117,108,116,105,112,108,121>>,  \* 1160: much muffin mule multiply
       <<109,117,115,99,108,101>>, <<109,117,115,101,117,109>>, <<109,117,115,104,114,111,111,109>>, <<109,117,115,105,99>>,  \* 1164: muscle museum mushroom music
       <<109,117,115,116>>, <<109,117,116,117,97,108>>, <<109,121,115,101,108,102>>, <<109,121,115,116,101,114,121>>,  \* 1168: must mutual myself mystery
       <<109,121,116,104>>, <<110,97,105,118,101>>, <<110,97,109,101>>, <<110,97,112,107,105,110>>,  \* 1172: myth naive name napkin
       <<110,97,114,114,111,119>>, <<110,97,115,116,121>>, <<110,97,116,105,111,110>>, <<110,97,116,117,114,101>>,  \* 1176: narrow nasty nation nature
       <<110,101,97,114>>, <<110,101,99,107>>, <<110,101,101,100>>, <<110,101,103,97,116,105,118,101>>,  \* 1180: near neck need negative
       <<110,101,103,108,101,99,116>>, <<110,101,105,116,104,101,114>>, <<110,101,112,104,101,119>>, <<110,101,114,118,101>>,  \* 1184: neglect neither nephew nerve
       <<110,101,115,116>>, <<110,101,116>>, <<110,101,116,119,111,114,107>>, <<110,101,117,116,114,97,108>>,  \* 1188: nest net network neutral
       <<110,101,118,101,114>>, <<110,101,119,115>>, <<110,101,120,116>>, <<110,105,99,101>>,  \* 1192: never news next nice
       <<110,105,103,104,116>>, <<110,111,98,108,101>>, <<110,111,105,115,101>>, <<110,111,109,105,110,101,101>>,  \* 1196: night noble noise nominee
       <<110,111,111,100,108,101>>, <<110,111,114,109,97,108>>, <<110,111,114,116,104>>, <<110,111,115,101>>,  \* 1200: noodle normal north nose
       <<110,111,116,97,98,108,101>>, <<110,111,116,101>>, <<110,111,116,104,105,110,103>>, <<110,111,116,105,99,101>>,  \* 1204: notable note nothing notice
       <<110,111,118,101,108>>, <<110,111,119>>, <<110,117,99,108,101,97,114>>, <<110,117,109,98,101,114>>,  \* 1208: novel now nuclear number
       <<110,117,114,115,101>>, <<110,117,116>>, <<111,97,107>>, <<111,98,101,121>>,  \* 1212: nurse nut oak obey
       <<111,98,106,101,99,116>>, <<111,98,108,105,103,101>>, <<111,98,115,99,117,114,101>>, <<111,98,115,101,114,118,101>>,  \* 1216: object oblige obscure observe
       <<111,98,116,97,105,110>>, <<111,98,118,105,111,117,115>>, <<111,99,99,117,114>>, <<111,99,101,97,110>>,  \* 1220: obtain obvious occur ocean
       <<111,99,116,111,98,101,114>>, <<111,100,111,114>>, <<111,102,102>>, <<111,102,102,101,114>>,  \* 1224: october odor off offer
       <<111,102,102,105,99,101>>, <<111,102,116,101,110>>, <<111,105,108>>, <<111,107,97,121>>,  \* 1228: office often oil okay
       <<111,108,100>>, <<111,108,105,118,101>>, <<111,108,121,109,112,105,99>>, <<111,109,105,116>>,  \* 1232: old olive olympic omit
       <<111,110,99,101>>, <<111,110,101>>, <<111,110,105,111,110>>, <<111,110,108,105,110,101>>,  \* 1236: once one onion online
       <<111,110,108,121>>, <<111,112,101,110>>, <<111,112,101,114,97>>, <<111,112,105,110,105,111,110>>,  \* 1240: only open opera opinion
       <<111,112,112,111,115,101>>, <<111,112,116,105,111,110>>, <<111,114,97,110,103,101>>, <<111,114,98,105,116>>,  \* 1244: oppose option orange orbit
       <<111,114,99,104,97,114,100>>, <<111,114,100,101,114>>, <<111,114,100,105,110,97,114,121>>, <<111,114,103,97,110>>,  \* 1248: orchard order ordinary organ
       <<111,114,105,101,110,116>>, <<111,114,105,103,105,110,97,108>>, <<111,114,112,104,97,110>>, <<111,115,116,114,105,99,104>>,  \* 1252: orient original orphan ostrich
       <<111,116,104,101,114>>, <<111,117,116,100,111,111,114>>, <<111,117,116,101,114>>, <<111,117,116,112,117,116>>,  \* 1256: other outdoor outer output
       <<111,117,116,115,105,100,101>>, <<111,118,97,108>>, <<111,118,101,110>>, <<111,118,101,114>>,  \* 1260: outside oval oven over
       <<111,119,110>>, <<111,119,110,101,114>>, <<111,120,121,103,101,110>>, <<111,121,115,116,101,114>>,  \* 1264: own owner oxygen oyster
       <<111,122,111,110,101>>, <<112,97,99,116>>, <<112,97,100,100,108,101>>, <<112,97,103,101>>,  \* 1268: ozone pact paddle page
       <<112,97,105,114>>, <<112,97,108,97,99,101>>, <<112,97,108,109>>, <<112,97,110,100,97>>,  \* 1272: pair palace palm panda
       <<112,97,110,101,108>>, <<112,97,110,105,99>>, <<112,97,110,116,104,101,114>>, <<112,97,112,101,114>>,  \* 1276: panel panic panther paper
       <<112,97,114,97,100,101>>, <<112,97,114,101,110,116>>, <<112,97,114,107>>, <<112,97,114,114,111,116>>,  \* 1280: parade parent park parrot
       <<112,97,114,116,121>>, <<112,97,115,115>>, <<112,97,116,99,104>>, <<112,97,116,104>>,  \* 1284: party pass patch path
       <<112,97,116,105,101,110,116>>, <<112,97,116,114,111,108>>, <<112,97,116,116,101,114,110>>, <<112,97,117,115,101>>,  \* 1288: patient patrol pattern pause
       <<112,97,118,101>>, <<112,97,121,109,101,110,116>>, <<112,101,97,99,101>>, <<112,101,97,110,117,116>>,  \* 1292: pave payment peace peanut
       <<112,101,97,114>>, <<112,101,97,115,97,110,116>>, <<112,101,108,105,99,97,110>>, <<112,101,110>>,  \* 1296: pear peasant pelican pen
       <<112,101,110,97,108,116,121>>, <<112,101,110,99,105,108>>, <<112,101,111,112,108,101>>, <<112,101,112,112,101,114>>,  \* 1300: penalty pencil people pepper
       <<112,101,114,102,101,99,116>>, <<112,101,114,109,105,116>>, <<112,101,114,115,111,110>>, <<112,101,116>>,  \* 1304: perfect permit person pet
       <<112,104,111,110,101>>, <<112,104,111,116,111>>, <<112,104,114,97,115,101>>, <<112,104,121,115,105,99,97,108>>,  \* 1308: phone photo phrase physical
       <<112,105,97,110,111>>, <<112,105,99,110,105,99>>, <<112,105,99,116,117,114,101>>, <<112,105,101,99,101>>,  \* 1312: piano picnic picture piece
       <<112,105,103>>, <<112,105,103,101,111,110>>, <<112,105,108,108>>, <<112,105,108,111,116>>,  \* 1316: pig pigeon pill pilot
       <<112,105,110,107>>, <<112,105,111,110,101,101,114>>, <<112,105,112,101>>, <<112,105,115,116,111,108>>,  \* 1320: pink pioneer pipe pistol
       <<112,105,116,99,104>>, <<112,105,122,122,97>>, <<112,108,97,99,101>>, <<112,108,97,110,101,116>>,  \* 1324: pitch pizza place planet
       <<112,108,97,115,116,105,99>>, <<112,108,97,116,101>>, <<112,108,97,121>>, <<112,108,101,97,115,101>>,  \* 1328: plastic plate play please
       <<112,108,101,100,103,101>>, <<112,108,117,99,107>>, <<112,108,117,103>>, <<112,108,117,110,103,101>>,  \* 1332: pledge pluck plug plunge
       <<112,111,101,109>>, <<112,111,101,116>>, <<112,111,105,110,116>>, <<112,111,108,97,114>>,  \* 1336: poem poet point polar
       <<112,111,108,101>>, <<112,111,108,105,99,101>>, <<112,111,110,100>>, <<112,111,110,121>>,  \* 1340: pole police pond pony
       <<112,111,111,108>>, <<112,111,112,117,108,97,114>>, <<112,111,114,116,105,111,110>>, <<112,111,115,105,116,105,111,110>>,  \* 1344: pool popular portion position
       <<112,111,115,115,105,98,108,101>>, <<112,111,115,116>>, <<112,111,116,97,116,111>>, <<112,111,116,116,101,114,121>>,  \* 1348: possible post potato pottery
       <<112,111,118,101,114,116,121>>, <<112,111,119,100,101,114>>, <<112,111,119,101,114>>, <<112,114,97,99,116,105,99,101>>,  \* 1352: poverty powder power practice
       <<112,114,97,105,115,101>>, <<112,114,101,100,105,99,116>>, <<112,114,101,102,101,114>>, <<112,114,101,112,97,114,101>>,  \* 1356: praise predict prefer prepare
       <<112,114,101,115,101,110,116>>, <<112,114,101,116,116,121>>, <<112,114,101,118,101,110,116>>, <<112,114,105,99,101>>,  \* 1360: present pretty prevent price
       <<112,114,105,100,101>>, <<112,114,105,109,97,114,121>>, <<112,114,105,110,116>>, <<112,114,105,111,114,105,116,121>>,  \* 1364: pride primary print priority
       <<112,114,105,115,111,110>>, <<112,114,105,118,97,116,101>>, <<112,114,105,122,101>>, <<112,114,111,98,108,101,109>>,  \* 1368: prison private prize problem
       <<112,114,111,99,101,115,115>>, <<112,114,111,100,117,99,101>>, <<112,114,111,102,105,116>>, <<112,114,111,103,114,97,109>>,  \* 1372: process produce profit program
       <<112,114,111,106,101,99,116>>, <<112,114,111,109,111,116,101>>, <<112,114,111,111,102>>, <<112,114,111,112,101,114,116,121>>,  \* 1376: project promote proof property
       <<112,114,111,115,112,101,114>>, <<112,114,111,116,101,99,116>>, <<112,114,111,117,100>>, <<112,114,111,118,105,100,101>>,  \* 1380: prosper protect proud provide
       <<112,117,98,108,105,99>>, <<112,117,100,100,105,110,103>>, <<112,117,108,108>>, <<112,117,108,112>>,  \* 1384: public pudding pull pulp
       <<112,117,108,115,101>>, <<112,117,109,112,107,105,110>>, <<112,117,110,99,104>>, <<112,117,112,105,108>>,  \* 1388: pulse pumpkin punch pupil
       <<112,117,112,112,121>>, <<112,117,114,99,104,97,115,101>>, <<112,117,114,105,116,121>>, <<112,117,114,112,111,115,101>>,  \* 1392: puppy purchase purity purpose
       <<112,117,114,115,101>>, <<112,117,115,104>>, <<112,117,116>>, <<112,117,122,122,108,101>>,  \* 1396: purse push put puzzle
       <<112,121,114,97,109,105,100>>, <<113,117,97,108,105,116,121>>, <<113,117,97,110,116,117,109>>, <<113,117,97,114,116,101,114>>,  \* 1400: pyramid quality quantum quarter
       <<113,117,101,115,116,105,111,110>>, <<113,117,105,99,107>>, <<113,117,105,116>>, <<113,117,105,122>>,  \* 1404: question quick quit quiz
       <<113,117,111,116,101>>, <<114,97,98,98,105,116>>, <<114,97,99,99,111,111,110>>, <<114,97,99,101>>,  \* 1408: quote rabbit raccoon race
       <<114,97,99,107>>, <<114,97,100,97,114>>, <<114,97,100,105,111>>, <<114,97,105,108>>,  \* 1412: rack radar radio rail
       <<114,97,105,110>>, <<114,97,105,115,101>>, <<114,97,108,108,121>>, <<114,97,109,112>>,  \* 1416: rain raise rally ramp
       <<114,97,110,99,104>>, <<114,97,110,100,111,109>>, <<114,97,110,103,101>>, <<114,97,112,105,100>>,  \* 1420: ranch random range rapid
       <<114,97,114,101>>, <<114,97,116,101>>, <<114,97,116,104,101,114>>, <<114,97,118,101,110>>,  \* 1424: rare rate rather raven
       <<114,97,119>>, <<114,97,122,111,114>>, <<114,101,97,100,121>>, <<114,101,97,108>>,  \* 1428: raw razor ready real
       <<114,101,97,115,111,110>>, <<114,101,98,101,108>>, <<114,101,98,117,105,108,100>>, <<114,101,99,97,108,108>>,  \* 1432: reason rebel rebuild recall
       <<114,101,99,101,105,118,101>>, <<114,101,99,105,112,101>>, <<114,101,99,111,114,100>>, <<114,101,99,121,99,108,101>>,  \* 1436: receive recipe record recycle
       <<114,101,100,117,99,101>>, <<114,101,102,108,101,99,116>>, <<114,101,102,111,114,109>>, <<114,101,102,117,115,101>>,  \* 1440: reduce reflect reform refuse
       <<114,101,103,105,111,110>>, <<114,101,103,114,101,116>>, <<114,101,103,117,108,97,114>>, <<114,101,106,101,99,116>>,  \* 1444: region regret regular reject
       <<114,101,108,97,120>>, <<114,101,108,101,97,115,101>>, <<114,101,108,105,101,102>>, <<114,101,108,121>>,  \* 1448: relax release relief rely
       <<114,101,109,97,105,110>>, <<114,101,109,101,109,98,101,114>>, <<114,101,109,105,110,100>>, <<114,101,109,111,118,101>>,  \* 1452: remain remember remind remove
       <<114,101,110,100,101,114>>, <<114,101,110,101,119>>, <<114,101,110,116>>, <<114,101,111,112,101,110>>,  \* 1456: render renew rent reopen
       <<114,101,112,97,105,114>>, <<114,101,112,101,97,116>>, <<114,101,112,108,97,99,101>>, <<114,101,112,111,114,116>>,  \* 1460: repair repeat replace report
       <<114,101,113,117,105,114,101>>, <<114,101,115,99,117,101>>, <<114,101,115,101,109,98,108,101>>, <<114,101,115,105,115,116>>,  \* 1464: require rescue resemble resist
       <<114,101,115,111,117,114,99,101>>, <<114,101,115,112,111,110,115,101>>, <<114,101,115,117,108,116>>, <<114,101,116,105,114,101>>,  \* 1468: resource response result retire
       <<114,101,116,114,101,97,116>>, <<114,101,116,117,114,110>>, <<114,101,117,110,105,111,110>>, <<114,101,118,101,97,108>>,  \* 1472: retreat return reunion reveal
       <<114,101,118,105,101,119>>, <<114,101,119,97,114,100>>, <<114,104,121,116,104,109>>, <<114,105,98>>,  \* 1476: review reward rhythm rib
       <<114,105,98,98,111,110>>, <<114,105,99,101>>, <<114,105,99,104>>, <<114,105,100,101>>,  \* 1480: ribbon rice rich ride
       <<114,105,100,103,101>>, <<114,105,102,108,101>>, <<114,105,103,104,116>>, <<114,105,103,105,100>>,  \* 1484: ridge rifle right rigid
       <<114,105,110,103>>, <<114,105,111,116>>, <<114,105,112,112,108,101>>, <<114,105,115,107>>,  \* 1488: ring riot ripple risk
       <<114,105,116,117,97,108>>, <<114,105,118,97,108>>, <<114,105,118,101,114>>, <<114,111,97,100>>,  \* 1492: ritual rival river road
       <<114,111,97,115,116>>, <<114,111,98,111,116>>, <<114,111,98,117,115,116>>, <<114,111,99,107,101,116>>,  \* 1496: roast robot robust rocket
       <<114,111,109,97,110,99,101>>, <<114,111,111,102>>, <<114,111,111,107,105,101>>, <<114,111,111,109>>,  \* 1500: romance roof rookie room
       <<114,111,115,101>>, <<114,111,116,97,116,101>>, <<114,111,117,103,104>>, <<114,111,117,110,100>>,  \* 1504: rose rotate rough round
       <<114,111,117,116,101>>, <<114,111,121,97,108>>, <<114,117,98,98,101,114>>, <<114,117,100,101>>,  \* 1508: route royal rubber rude
       <<114,117,103>>, <<114,117,108,101>>, <<114,117,110>>, <<114,117,110,119,97,121>>,  \* 1512: rug rule run runway
       <<114,117,114,97,108>>, <<115,97,100>>, <<115,97,100,100,108,101>>, <<115,97,100,110,101,115,115>>,  \* 1516: rural sad saddle sadness
       <<115,97,102,101>>, <<115,97,105,108>>, <<115,97,108,97,100>>, <<115,97,108,109,111,110>>,  \* 1520: safe sail salad salmon
       <<115,97,108,111,110>>, <<115,97,108,116>>, <<115,97,108,117,116,101>>, <<115,97,109,101>>,  \* 1524: salon salt salute same
       <<115,97,109,112,108,101>>, <<115,97,110,100>>, <<115,97,116,105,115,102,121>>, <<115,97,116,111,115,104,105>>,  \* 1528: sample sand satisfy satoshi
       <<115,97,117,99,101>>, <<115,97,117,115,97,103,101>>, <<115,97,118,101>>, <<115,97,121>>,  \* 1532: sauce sausage save say
       <<115,99,97,108,101>>, <<115,99,97,110>>, <<115,99,97,114,101>>, <<115,99,97,116,116,101,114>>,  \* 1536: scale scan scare scatter
       <<115,99,101,110,101>>, <<115,99,104,101,109,101>>, <<115,99,104,111,111,108>>, <<115,99,105,101,110,99,101>>,  \* 1540: scene scheme school science
       <<115,99,105,115,115,111,114,115>>, <<115,99,111,114,112,105,111,110>>, <<115,99,111,117,116>>, <<115,99,114,97,112>>,  \* 1544: scissors scorpion scout scrap
       <<115,99,114,101,101,110>>, <<115,99,114,105,112,116>>, <<115,99,114,117,98>>, <<115,101,97>>,  \* 1548: screen script scrub sea
       <<115,101,97,114,99,104>>, <<115,101,97,115,111,110>>, <<115,101,97,116>>, <<115,101,99,111,110,100>>,  \* 1552: search season seat second
       <<115,101,99,114,101,116>>, <<115,101,99,116,105,111,110>>, <<115,101,99,117,114,105,116,121>>, <<115,101,101,100>>,  \* 1556: secret section security seed
       <<115,101,101,107>>, <<115,101,103,109,101,110,116>>, <<115,101,108,101,99,116>>, <<115,101,108,108>>,  \* 1560: seek segment select sell
       <<115,101,109,105,110,97,114>>, <<115,101,110,105,111,114>>, <<115,101,110,115,101>>, <<115,101,110,116,101,110,99,101>>,  \* 1564: seminar senior sense sentence
       <<115,101,114,105,101,115>>, <<115,101,114,118,105,99,101>>, <<115,101,115,115,105,111,110>>, <<115,101,116,116,108,101>>,  \* 1568: series service session settle
       <<115,101,116,117,112>>, <<115,101,118,101,110>>, <<115,104,97,100,111,119>>, <<115,104,97,102,116>>,  \* 1572: setup seven shadow shaft
       <<115,104,97,108,108,111,119>>, <<115,104,97,114,101>>, <<115,104,101,100>>, <<115,104,101,108,108>>,  \* 1576: shallow share shed shell
       <<115,104,101,114,105,102,102>>, <<115,104,105,101,108,100>>, <<115,104,105,102,116>>, <<115,104,105,110,101>>,  \* 1580: sheriff shield shift shine
       <<115,104,105,112>>, <<115,104,105,118,101,114>>, <<115,104,111,99,107>>, <<115,104,111,101>>,  \* 1584: ship shiver shock shoe
       <<115,104,111,111,116>>, <<115,104,111,112>>, <<115,104,111,114,116>>, <<115,104,111,117,108,100,101,114>>,  \* 1588: shoot shop short shoulder
       <<115,104,111,118,101>>, <<115,104,114,105,109,112>>, <<115,104,114,117,103>>, <<115,104,117,102,102,108,101>>,  \* 1592: shove shrimp shrug shuffle
       <<115,104,121>>, <<115,105,98,108,105,110,103>>, <<115,105,99,107>>, <<115,105,100,101>>,  \* 1596: shy sibling sick side
       <<115,105,101,103,101>>, <<115,105,103,104,116>>, <<115,105,103,110>>, <<115,105,108,101,110,116>>,  \* 1600: siege sight sign silent
       <<115,105,108,107>>, <<115,105,108,108,121>>, <<115,105,108,118,101,114>>, <<115,105,109,105,108,97,114>>,  \* 1604: silk silly silver similar
       <<115,105,109,112,108,101>>, <<115,105,110,99,101>>, <<115,105,110,103>>, <<115,105,114,101,110>>,  \* 1608: simple since sing siren
       <<115,105,115,116,101,114>>, <<115,105,116,117,97,116,101>>, <<115,105,120>>, <<115,105,122,101>>,  \* 1612: sister situate six size
       <<115,107,97,116,101>>, <<115,107,101,116,99,104>>, <<115,107,105>>, <<115,107,105,108,108>>,  \* 1616: skate sketch ski skill
       <<115,107,105,110>>, <<115,107,105,114,116>>, <<115,107,117,108,108>>, <<115,108,97,98>>,  \* 1620: skin skirt skull slab
       <<115,108,97,109>>, <<115,108,101,101,112>>, <<115,108,101,110,100,101,114>>, <<115,108,105,99,101>>,  \* 1624: slam sleep slender slice
       <<115,108,105,100,101>>, <<115,108,105,103,104,116>>, <<115,108,105,109>>, <<115,108,111,103,97,110>>,  \* 1628: slide slight slim slogan
       <<115,108,111,116>>, <<115,108,111,119>>, <<115,108,117,115,104>>, <<115,109,97,108,108>>,  \* 1632: slot slow slush small
       <<115,109,97,114,116>>, <<115,109,105,108,101>>, <<115,109,111,107,101>>, <<115,109,111,111,116,104>>,  \* 1636: smart smile smoke smooth
       <<115,110,97,99,107>>, <<115,110,97,107,101>>, <<115,110,97,112>>, <<115,110,105,102,102>>,  \* 1640: snack snake snap sniff
       <<115,110,111,119>>, <<115,111,97,112>>, <<115,111,99,99,101,114>>, <<115,111,99,105,97,108>>,  \* 1644: snow soap soccer social
       <<115,111,99,107>>, <<115,111,100,97>>, <<115,111,102,116>>, <<115,111,108,97,114>>,  \* 1648: sock soda soft solar
       <<115,111,108,100,105,101,114>>, <<115,111,108,105,100>>, <<115,111,108,117,116,105,111,110>>, <<115,111,108,118,101>>,  \* 1652: soldier solid solution solve
       <<115,111,109,101,111,110,101>>, <<115,111,110,103>>, <<115,111,111,110>>, <<115,111,114,114,121>>,  \* 1656: someone song soon sorry
       <<115,111,114,116>>, <<115,111,117,108>>, <<115,111,117,110,100>>, <<115,111,117,112>>,  \* 1660: sort soul sound soup
       <<115,111,117,114,99,101>>, <<115,111,117,116,104>>, <<115,112,97,99,101>>, <<115,112,97,114,101>>,  \* 1664: source south space spare
       <<115,112,97,116,105,97,108>>, <<115,112,97,119,110>>, <<115,112,101,97,107>>, <<115,112,101,99,105,97,108>>,  \* 1668: spatial spawn speak special
       <<115,112,101,101,100>>, <<115,112,101,108,108>>, <<115,112,101,110,100>>, <<115,112,104,101,114,101>>,  \* 1672: speed spell spend sphere
       <<115,112,105,99,101>>, <<115,112,105,100,101,114>>, <<115,112,105,107,101>>, <<115,112,105,110>>,  \* 1676: spice spider spike spin
       <<115,112,105,114,105,116>>, <<115,112,108,105,116>>, <<115,112,111,105,108>>, <<115,112,111,110,115,111,114>>,  \* 1680: spirit split spoil sponsor
       <<115,112,111,111,110>>, <<115,112,111,114,116>>, <<115,112,111,116>>, <<115,112,114,97,121>>,  \* 1684: spoon sport spot spray
       <<115,112,114,101,97,100>>, <<115,112,114,105,110,103>>, <<115,112,121>>, <<115,113,117,97,114,101>>,  \* 1688: spread spring spy square
       <<115,113,117,101,101,122,101>>, <<115,113,117,105,114,114,101,108>>, <<115,116,97,98,108,101>>, <<115,116,97,100,105,117,109>>,  \* 1692: squeeze squirrel stable stadium
       <<115,116,97,102,102>>, <<115,116,97,103,101>>, <<115,116,97,105,114,115>>, <<115,116,97,109,112>>,  \* 1696: staff stage stairs stamp
       <<115,116,97,110,100>>, <<115,116,97,114,116>>, <<115,116,97,116,101>>, <<115,116,97,121>>,  \* 1700: stand start state stay
       <<115,116,101,97,107>>, <<115,116,101,101,108>>, <<115,116,101,109>>, <<115,116,101,112>>,  \* 1704: steak steel stem step
       <<115,116,101,114,101,111>>, <<115,116,105,99,107>>, <<115,116,105,108,108>>, <<115,116,105,110,103>>,  \* 1708: stereo stick still sting
       <<115,116,111,99,107>>, <<115,116,111,109,97,99,104>>, <<115,116,111,110,101>>, <<115,116,111,111,108>>,  \* 1712: stock stomach stone stool
       <<115,116,111,114,121>>, <<115,116,111,118,101>>, <<115,116,114,97,116,101,103,121>>, <<115,116,114,101,101,116>>,  \* 1716: story stove strategy street
       <<115,116,114,105,107,101>>, <<115,116,114,111,110,103>>, <<115,116,114,117,103,103,108,101>>, <<115,116,117,100,101,110,116>>,  \* 1720: strike strong struggle student
       <<115,116,117,102,102>>, <<115,116,117,109,98,108,101>>, <<115,116,121,108,101>>, <<115,117,98,106,101,99,116>>,  \* 1724: stuff stumble style subject
       <<115,117,98,109,105,116>>, <<115,117,98,119,97,121>>, <<115,117,99,99,101,115,115>>, <<115,117,99,104>>,  \* 1728: submit subway success such
       <<115,117,100,100,101,110>>, <<115,117,102,102,101,114>>, <<115,117,103,97,114>>, <<115,117,103,103,101,115,116>>,  \* 1732: sudden suffer sugar suggest
       <<115,117,105,116>>, <<115,117,109,109,101,114>>, <<115,117,110>>, <<115,117,110,110,121>>,  \* 1736: suit summer sun sunny
       <<115,117,110,115,101,116>>, <<115,117,112,101,114>>, <<115,117,112,112,108,121>>, <<115,117,112,114,101,109,101>>,  \* 1740: sunset super supply supreme
       <<115,117,114,101>>, <<115,117,114,102,97,99,101>>, <<115,117,114,103,101>>, <<115,117,114,112,114,105,115,101>>,  \* 1744: sure surface surge surprise
       <<115,117,114,114,111,117,110,100>>, <<115,117,114,118,101,121>>, <<115,117,115,112,101,99,116>>, <<115,117,115,116,97,105,110>>,  \* 1748: surround survey suspect sustain
       <<115,119,97,108,108,111,119>>, <<115,119,97,109,112>>, <<115,119,97,112>>, <<115,119,97,114,109>>,  \* 1752: swallow swamp swap swarm
       <<115,119,101,97,114>>, <<115,119,101,101,116>>, <<115,119,105,102,116>>, <<115,119,105,109>>,  \* 1756: swear sweet swift swim
       <<115,119,105,110,103>>, <<115,119,105,116,99,104>>, <<115,119,111,114,100>>, <<115,121,109,98,111,108>>,  \* 1760: swing switch sword symbol
       <<115,121,109,112,116,111,109>>, <<115,121,114,117,112>>, <<115,121,115,116,101,109>>, <<116,97,98,108,101>>,  \* 1764: symptom syrup system table
       <<116,97,99,107,108,101>>, <<116,97,103>>, <<116,97,105,108>>, <<116,97,108,101,110,116>>,  \* 1768: tackle tag tail talent
       <<116,97,108,107>>, <<116,97,110,107>>, <<116,97,112,101>>, <<116,97,114,103,101,116>>,  \* 1772: talk tank tape target
       <<116,97,115,107>>, <<116,97,115,116,101>>, <<116,97,116,116,111,111>>, <<116,97,120,105>>,  \* 1776: task taste tattoo taxi
       <<116,101,97,99,104>>, <<116,101,97,109>>, <<116,101,108,108>>, <<116,101,110>>,  \* 1780: teach team tell ten
       <<116,101,110,97,110,116>>, <<116,101,110,110,105,115>>, <<116,101,110,116>>, <<116,101,114,109>>,  \* 1784: tenant tennis tent term
       <<116,101,115,116>>, <<116,101,120,116>>, <<116,104,97,110,107>>, <<116,104,97,116>>,  \* 1788: test text thank that
       <<116,104,101,109,101>>, <<116,104,101,110>>, <<116,104,101,111,114,121>>, <<116,104,101,114,101>>,  \* 1792: theme then theory there
       <<116,104,101,121>>, <<116,104,105,110,103>>, <<116,104,105,115>>, <<116,104,111,117,103,104,116>>,  \* 1796: they thing this thought
       <<116,104,114,101,101>>, <<116,104,114,105,118,101>>, <<116,104,114,111,119>>, <<116,104,117,109,98>>,  \* 1800: three thrive throw thumb
       <<116,104,117,110,100,101,114>>, <<116,105,99,107,101,116>>, <<116,105,100,101>>, <<116,105,103,101,114>>,  \* 1804: thunder ticket tide tiger
       <<116,105,108,116>>, <<116,105,109,98,101,114>>, <<116,105,109,101>>, <<116,105,110,121>>,  \* 1808: tilt timber time tiny
       <<116,105,112>>, <<116,105,114,101,100>>, <<116,105,115,115,117,101>>, <<116,105,116,108,101>>,  \* 1812: tip tired tissue title
       <<116,111,97,115,116>>, <<116,111,98,97,99,99,111>>, <<116,111,100,97,121>>, <<116,111,100,100,108,101,114>>,  \* 1816: toast tobacco today toddler
       <<116,111,101>>, <<116,111,103,101,116,104,101,114>>, <<116,111,105,108,101,116>>, <<116,111,107,101,110>>,  \* 1820: toe together toilet token
       <<116,111,109,97,116,111>>, <<116,111,109,111,114,114,111,119>>, <<116,111,110,101>>, <<116,111,110,103,117,101>>,  \* 1824: tomato tomorrow tone tongue
       <<116,111,110,105,103,104,116>>, <<116,111,111,108>>, <<116,111,111,116,104>>, <<116,111,112>>,  \* 1828: tonight tool tooth top
       <<116,111,112,105,99>>, <<116,111,112,112,108,101>>, <<116,111,114,99,104>>, <<116,111,114,110,97,100,111>>,  \* 1832: topic topple torch tornado
       <<116,111,114,116,111,105,115,101>>, <<116,111,115,115>>, <<116,111,116,97,108>>, <<116,111,117,114,105,115,116>>,  \* 1836: tortoise toss total tourist
       <<116,111,119,97,114,100>>, <<116,111,119,101,114>>, <<116,111,119,110>>, <<116,111,121>>,  \* 1840: toward tower town toy
       <<116,114,97,99,107>>, <<116,114,97,100,101>>, <<116,114,97,102,102,105,99>>, <<116,114,97,103,105,99>>,  \* 1844: track trade traffic tragic
       <<116,114,97,105,110>>, <<116,114,97,110,115,102,101,114>>, <<116,114,97,112>>, <<116,114,97,115,104>>,  \* 1848: train transfer trap trash
       <<116,114,97,118,101,108>>, <<116,114,97,121>>, <<116,114,101,97,116>>, <<116,114,101,101>>,  \* 1852: travel tray treat tree
       <<116,114,101,110,100>>, <<116,114,105,97,108>>, <<116,114,105,98,101>>, <<116,114,105,99,107>>,  \* 1856: trend trial tribe trick
       <<116,114,105,103,103,101,114>>, <<116,114,105,109>>, <<116,114,105,112>>, <<116,114,111,112,104,121>>,  \* 1860: trigger trim trip trophy
       <<116,114,111,117,98,108,101>>, <<116,114,117,99,107>>, <<116,114,117,101>>, <<116,114,117,108,121>>,  \* 1864: trouble truck true truly
       <<116,114,117,109,112,101,116>>, <<116,114,117,115,116>>, <<116,114,117,116,104>>, <<116,114,121>>,  \* 1868: trumpet trust truth try
       <<116,117,98,101>>, <<116,117,105,116,105,111,110>>, <<116,117,109,98,108,101>>, <<116,117,110,97>>,  \* 1872: tube tuition tumble tuna
       <<116,117,110,110,101,108>>, <<116,117,114,107,101,121>>, <<116,117,114,110>>, <<116,117,114,116,108,101>>,  \* 1876: tunnel turkey turn turtle
       <<116,119,101,108,118,101>>, <<116,119,101,110,116,121>>, <<116,119,105,99,101>>, <<116,119,105,110>>,  \* 1880: twelve twenty twice twin
       <<116,119,105,115,116>>, <<116,119,111>>, <<116,121,112,101>>, <<116,121,112,105,99,97,108>>,  \* 1884: twist two type typical
       <<117,103,108,121>>, <<117,109,98,114,101,108,108,97>>, <<117,110,97,98,108,101>>, <<117,110,97,119,97,114,101>>,  \* 1888: ugly umbrella unable unaware
       <<117,110,99,108,101>>, <<117,110,99,111,118,101,114>>, <<117,110,100,101,114>>, <<117,110,100,111>>,  \* 1892: uncle uncover under undo
       <<117,110,102,97,105,114>>, <<117,110,102,111,108,100>>, <<117,110,104,97,112,112,121>>, <<117,110,105,102,111,114,109>>,  \* 1896: unfair unfold unhappy uniform
       <<117,110,105,113,117,101>>, <<117,110,105,116>>, <<117,110,105,118,101,114,115,101>>, <<117,110,107,110,111,119,110>>,  \* 1900: unique unit universe unknown
       <<117,110,108,111,99,107>>, <<117,110,116,105,108>>, <<117,110,117,115,117,97,108>>, <<117,110,118,101,105,108>>,  \* 1904: unlock until unusual unveil
       <<117,112,100,97,116,101>>, <<117,112,103,114,97,100,101>>, <<117,112,104,111,108,100>>, <<117,112,111,110>>,  \* 1908: update upgrade uphold upon
       <<117,112,112,101,114>>, <<117,112,115,101,116>>, <<117,114,98,97,110>>, <<117,114,103,101>>,  \* 1912: upper upset urban urge
       <<117,115,97,103,101>>, <<117,115,101>>, <<117,115,101,100>>, <<117,115,101,102,117,108>>,  \* 1916: usage use used useful
       <<117,115,101,108,101,115,115>>, <<117,115,117,97,108>>, <<117,116,105,108,105,116,121>>, <<118,97,99,97,110,116>>,  \* 1920: useless usual utility vacant
       <<118,97,99,117,117,109>>, <<118,97,103,117,101>>, <<118,97,108,105,100>>, <<118,97,108,108,101,121>>,  \* 1924: vacuum vague valid valley
       <<118,97,108,118,101>>, <<118,97,110>>, <<118,97,110,105,115,104>>, <<118,97,112,111,114>>,  \* 1928: valve van vanish vapor
       <<118,97,114,105,111,117,115>>, <<118,97,115,116>>, <<118,97,117,108,116>>, <<118,101,104,105,99,108,101>>,  \* 1932: various vast vault vehicle
       <<118,101,108,118,101,116>>, <<118,101,110,100,111,114>>, <<118,101,110,116,117,114,101>>, <<118,101,110,117,101>>,  \* 1936: velvet vendor venture venue
       <<118,101,114,98>>, <<118,101,114,105,102,121>>, <<118,101,114,115,105,111,110>>, <<118,101,114,121>>,  \* 1940: verb verify version very
       <<118,101,115,115,101,108>>, <<118,101,116,101,114,97,110>>, <<118,105,97,98,108,101>>, <<118,105,98,114,97,110,116>>,  \* 1944: vessel veteran viable vibrant
       <<118,105,99,105,111,117,115>>, <<118,105,99,116,111,114,121>>, <<118,105,100,101,111>>, <<118,105,101,119>>,  \* 1948: vicious victory video view
       <<118,105,108,108,97,103,101>>, <<118,105,110,116,97,103,101>>, <<118,105,111,108,105,110>>, <<118,105,114,116,117,97,108>>,  \* 1952: village vintage violin virtual
       <<118,105,114,117,115>>, <<118,105,115,97>>, <<118,105,115,105,116>>, <<118,105,115,117,97,108>>,  \* 1956: virus visa visit visual
       <<118,105,116,97,108>>, <<118,105,118,105,100>>, <<118,111,99,97,108>>, <<118,111,105,99,101>>,  \* 1960: vital vivid vocal voice
       <<118,111,105,100>>, <<118,111,108,99,97,110,111>>, <<118,111,108,117,109,101>>, <<118,111,116,101>>,  \* 1964: void volcano volume vote
       <<118,111,121,97,103,101>>, <<119,97,103,101>>, <<119,97,103,111,110>>, <<119,97,105,116>>,  \* 1968: voyage wage wagon wait
       <<119,97,108,107>>, <<119,97,108,108>>, <<119,97,108,110,117,116>>, <<119,97,110,116>>,  \* 1972: walk wall walnut want
       <<119,97,114,102,97,114,101>>, <<119,97,114,109>>, <<119,97,114,114,105,111,114>>, <<119,97,115,104>>,  \* 1976: warfare warm warrior wash
       <<119,97,115,112>>, <<119,97,115,116,101>>, <<119,97,116,101,114>>, <<119,97,118,101>>,  \* 1980: wasp waste water wave
       <<119,97,121>>, <<119,101,97,108,116,104>>, <<119,101,97,112,111,110>>, <<119,101,97,114>>,  \* 1984: way wealth weapon wear
       <<119,101,97,115,101,108>>, <<119,101,97,116,104,101,114>>, <<119,101,98>>, <<119,101,100,100,105,110,103>>,  \* 1988: weasel weather web wedding
       <<119,101,101,107,101,110,100>>, <<119,101,105,114,100>>, <<119,101,108,99,111,109,101>>, <<119,101,115,116>>,  \* 1992: weekend weird welcome west
       <<119,101,116>>, <<119,104,97,108,101>>, <<119,104,97,116>>, <<119,104,101,97,116>>,  \* 1996: wet whale what wheat
       <<119,104,101,101,108>>, <<119,104,101,110>>, <<119,104,101,114,101>>, <<119,104,105,112>>,  \* 2000: wheel when where whip
       <<119,104,105,115,112,101,114>>, <<119,105,100,101>>, <<119,105,100,116,104>>, <<119,105,102,101>>,  \* 2004: whisper wide width wife
       <<119,105,108,100>>, <<119,105,108,108>>, <<119,105,110>>, <<119,105,110,100,111,119>>,  \* 2008: wild will win window
       <<119,105,110,101>>, <<119,105,110,103>>, <<119,105,110,107>>, <<119,105,110,110,101,114>>,  \* 2012: wine wing wink winner
       <<119,105,110,116,101,114>>, <<119,105,114,101>>, <<119,105,115,100,111,109>>, <<119,105,115,101>>,  \* 2016: winter wire wisdom wise
       <<119,105,115,104>>, <<119,105,116,110,101,115,115>>, <<119,111,108,102>>, <<119,111,109,97,110>>,  \* 2020: wish witness wolf woman
       <<119,111,110,100,101,114>>, <<119,111,111,100>>, <<119,111,111,108>>, <<119,111,114,100>>,  \* 2024: wonder wood wool word
       <<119,111,114,107>>, <<119,111,114,108,100>>, <<119,111,114,114,121>>, <<119,111,114,116,104>>,  \* 2028: work world worry worth
       <<119,114,97,112>>, <<119,114,101,99,107>>, <<119,114,101,115,116,108,101>>, <<119,114,105,115,116>>,  \* 2032: wrap wreck wrestle wrist
       <<119,114,105,116,101>>, <<119,114,111,110,103>>, <<121,97,114,100>>, <<121,101,97,114>>,  \* 2036: write wrong yard year
       <<121,101,108,108,111,119>>, <<121,111,117>>, <<121,111,117,110,103>>, <<121,111,117,116,104>>,  \* 2040: yellow you young youth
       <<122,101,98,114,97>>, <<122,101,114,111>>, <<122,111,110,101>>, <<122,111,111>> >> \* 2044: zebra zero zone zoo

(***************************************************************************)
(* Masks required for unsetting bits: const MASKS: [u16; 8].               *)
(***************************************************************************)
MASKS == <<0, 1, 3, 7, 15, 31, 63, 127>>

(***************************************************************************)
(* Strings: s.split(' '), slice.join(" ") and the byte-wise order of &str. *)
(* Loops over a range are evaluated in two halves, first half first, so    *)
(* that the evaluation depth is logarithmic in the length of the range.    *)
(***************************************************************************)
SPACE == 32

NEWLINE == 10

SpacesOf(s) == { i \in 1..Len(s) : s[i] = SPACE }

\* The pieces of s between the positions in spaces, in order; k positions
\* give k + 1 pieces, some possibly empty.
Pieces(s, spaces) ==
    LET count == Cardinality(spaces) + 1
        \* position of the k-th space; 0 before the string, Len(s) + 1 after it
        SpaceNo(k) == IF k = 0 THEN 0
                      ELSE IF k = count THEN Len(s) + 1
                      ELSE CHOOSE i \in spaces : Cardinality({ j \in spaces : j < i }) = k - 1
    IN  [k \in 1..count |-> SubSeq(s, SpaceNo(k - 1) + 1, SpaceNo(k) - 1)]

\* s.trim_end().split(' '): trailing spaces and newlines are dropped first.
split_trimmed(s) ==
    LET kept == { i \in 1..Len(s) : s[i] \notin {SPACE, NEWLINE} }
        end == IF kept = {} THEN 0 ELSE CHOOSE i \in kept : \A j \in kept : j <= i
        trimmed == SubSeq(s, 1, end)
    IN  Pieces(trimmed, SpacesOf(trimmed))

\* s.split(' '): the pieces of s between its spaces.
split(s) == Pieces(s, SpacesOf(s))

\* words[lo..hi] joined by single spaces.
RECURSIVE JoinRange(_, _, _)
JoinRange(words, lo, hi) ==
    IF lo > hi THEN <<>>
    ELSE IF lo = hi THEN words[lo]
    ELSE LET mid == (lo + hi) \div 2
         IN  JoinRange(words, lo, mid) \o <<SPACE>> \o JoinRange(words, mid + 1, hi)

join(words) == JoinRange(words, 1, Len(words))

to_string(words) == join(words)

\* Ordering of two strings: -1 (Less), 0 (Equal), 1 (Greater).
RECURSIVE CmpFrom(_, _, _)
CmpFrom(a, b, i) ==
    IF i > Len(a) /\ i > Len(b) THEN 0
    ELSE IF i > Len(a) THEN -1
    ELSE IF i > Len(b) THEN 1
    ELSE IF a[i] < b[i] THEN -1
    ELSE IF a[i] > b[i] THEN 1
    ELSE CmpFrom(a, b, i + 1)

cmp(a, b) == CmpFrom(a, b, 1)

(***************************************************************************)
(* WORDS.binary_search(word): the index found, or -1 for Err(_).  The      *)
(* slice is searched as the standard library does; the two loops the       *)
(* library has shipped (halving from a base; left/right with early return) *)
(* agree on sorted slices and may differ on an unsorted one, so the        *)
(* variant is an input of the model.                                       *)
(***************************************************************************)
RECURSIVE SearchBase(_, _, _)
SearchBase(word, base, size) ==
    IF size > 1
    THEN LET half == size \div 2
             mid == base + half
             c == cmp(WORDS[mid + 1], word)
         IN  IF c = 1 THEN SearchBase(word, base, size - half)
             ELSE SearchBase(word, mid, size - half)
    ELSE IF cmp(WORDS[base + 1], word) = 0 THEN base ELSE -1

RECURSIVE SearchRange(_, _, _)
SearchRange(word, left, right) ==
    IF left < right
    THEN LET mid == left + (right - left) \div 2
             c == cmp(WORDS[mid + 1], word)
         IN  IF c = -1 THEN SearchRange(word, mid + 1, right)
             ELSE IF c = 1 THEN SearchRange(word, left, mid)
             ELSE mid
    ELSE -1

binary_search(variant, word) ==
    IF variant = 0 THEN SearchBase(word, 0, Len(WORDS))
    ELSE SearchRange(word, 0, Len(WORDS))

(***************************************************************************)
(* Sha256::digest(entropy)[0].  The digest is an external collaborator of  *)
(* which only the first byte is used.  Digest 0 returns the first SHA-256  *)
(* byte on the constant-fill slices of the accepted lengths (the fills of  *)
(* the BIP39 vectors) and a mixing sum elsewhere; the other digests are    *)
(* different mixing sums.                                                  *)
(***************************************************************************)
Sha256Fills ==
    [len \in {16, 20, 24, 28, 32} |->
        CASE len = 16 -> [f \in {0, 1, 127, 128, 255} |->
                 CASE f = 0 -> 55 [] f = 1 -> 204 [] f = 127 -> 135 [] f = 128 -> 78 [] f = 255 -> 90]
          [] len = 20 -> [f \in {0, 1, 127, 128, 255} |->
                 CASE f = 0 -> 222 [] f = 1 -> 155 [] f = 127 -> 27 [] f = 128 -> 94 [] f = 255 -> 154]
          [] len = 24 -> [f \in {0, 1, 127, 128, 255} |->
                 CASE f = 0 -> 157 [] f = 1 -> 91 [] f = 127 -> 102 [] f = 128 -> 240 [] f = 255 -> 68]
          [] len = 28 -> [f \in {0, 1, 127, 128, 255} |->
                 CASE f = 0 -> 58 [] f = 1 -> 34 [] f = 127 -> 52 [] f = 128 -> 164 [] f = 255 -> 50]
          [] len = 32 -> [f \in {0, 1, 127, 128, 255} |->
                 CASE f = 0 -> 102 [] f = 1 -> 114 [] f = 127 -> 23 [] f = 128 -> 189 [] f = 255 -> 175]]

\* Weighted sum, modulo 256, of bytes[lo..hi]; the weights are odd.
RECURSIVE MixSum(_, _, _)
MixSum(bytes, lo, hi) ==
    IF lo > hi THEN 0
    ELSE IF lo = hi THEN (bytes[lo] * (2 * lo + 1)) % 256
    ELSE LET mid == (lo + hi) \div 2
         IN  (MixSum(bytes, lo, mid) + MixSum(bytes, mid + 1, hi)) % 256

IsFill(bytes) ==
    /\ Len(bytes) \in DOMAIN Sha256Fills
    /\ bytes[1] \in DOMAIN Sha256Fills[Len(bytes)]
    /\ \A i \in 1..Len(bytes) : bytes[i] = bytes[1]

Sha256_digest0(salt, bytes) ==
    IF salt = 0 /\ IsFill(bytes) THEN Sha256Fills[Len(bytes)][bytes[1]]
    ELSE (MixSum(bytes, 1, Len(bytes)) + 101 * salt + 13 * Len(bytes) + 7) % 256

(***************************************************************************)
(* U11BitReader: reads data from a byte slice at the granularity of 11     *)
(* bits.  fault records an index past the end of the slice (a panic).      *)
(***************************************************************************)
U11BitReader_new(bytes) == [bytes |-> bytes, position |-> 0, value |-> 0, fault |-> FALSE]

\* One iteration with the bits of a byte taken from the low end:
\* let shift = i % 8.
ReadBitLow(before, bytes, i) ==
    LET byte_index == i \div 8
    IN  IF before.fault \/ byte_index >= Len(bytes)
        THEN [value |-> before.value, fault |-> TRUE]
        ELSE LET byte == bytes[byte_index + 1]
                 shift == i % 8
                 bit == BitAnd(Shr(byte, shift), 1)
             IN  [value |-> BitOr(Shl16(before.value, 1), bit), fault |-> FALSE]

\* One iteration of the loop "for i in start_position..end_position" of
\* read_u11: value = (value << 1) | bit, or fault when byte_index is past the
\* slice (a panic).
ReadBit(before, bytes, i) ==
    LET byte_index == i \div 8
    IN  IF before.fault \/ byte_index >= Len(bytes)
        THEN [value |-> before.value, fault |-> TRUE]
        ELSE LET byte == bytes[byte_index + 1]
                 shift == 7 - (i % 8)
                 bit == BitAnd(Shr(byte, shift), 1)
             IN  [value |-> BitOr(Shl16(before.value, 1), bit), fault |-> FALSE]

\* The loop after count of its iterations.
RECURSIVE ReadBits(_, _, _)
ReadBits(bytes, start_position, count) ==
    IF count = 0 THEN [value |-> 0, fault |-> FALSE]
    ELSE ReadBit(ReadBits(bytes, start_position, count - 1), bytes, start_position + count - 1)

\* read_u11 without "self.position = end_position".
read_u11_in_place(reader) ==
    LET start_position == reader.position
        end_position == U16(start_position + 11)
        bits == ReadBits(reader.bytes, start_position, end_position - start_position)
    IN  IF bits.fault THEN [reader EXCEPT !.fault = TRUE]
        ELSE [reader EXCEPT !.value = bits.value]

\* The reader after read_u11; its field value is the value returned.
read_u11(reader) ==
    LET start_position == reader.position
        end_position == U16(start_position + 11)
        bits == ReadBits(reader.bytes, start_position, end_position - start_position)
    IN  IF bits.fault THEN [reader EXCEPT !.fault = TRUE]
        ELSE [reader EXCEPT !.position = end_position, !.value = bits.value]

(***************************************************************************)
(* Mnemonic::mnemonic(entropy): generate mnemonic from entropy byte-array. *)
(***************************************************************************)
\* if len < 16 || len > 32
InvalidEntropyRange(n) == n < 16 \/ n > 32

\* if len < 16 || len > 32 || len % 4 != 0
InvalidEntropyLength(n) == n < 16 \/ n > 32 \/ n % 4 /= 0

\* let mnemonic_len = len * 8 / 11
EntropyWords(n) == (n * 8) \div 11

\* let mnemonic_len = len * 3 / 4
MnemonicLen(n) == (n * 3) \div 4

\* One iteration of "for _ in 0..mnemonic_len":
\* mnemonic.push(WORDS[bit_reader.read_u11() as usize]).
ReadWord(st) ==
    LET rd == read_u11(st.bit_reader)
    IN  IF rd.fault \/ rd.value >= Len(WORDS) THEN [st EXCEPT !.fault = TRUE]
        ELSE [bit_reader |-> rd, mnemonic |-> Append(st.mnemonic, WORDS[rd.value + 1]),
              fault |-> FALSE]

\* count iterations of the loop from st; a fault ends it.
RECURSIVE ReadWords(_, _)
ReadWords(st, count) ==
    IF count = 0 THEN st
    ELSE IF count = 1 THEN ReadWord(st)
    ELSE LET half == count \div 2
             first == ReadWords(st, half)
         IN  IF first.fault THEN first ELSE ReadWords(first, count - half)

\* The state before the loop with the reader over the entropy alone.
ReadStartBare(salt, entropy) ==
    [bit_reader |-> U11BitReader_new(entropy), mnemonic |-> <<>>, fault |-> FALSE]

\* The state before the loop: the reader over entropy and checksum byte.
ReadStart(salt, entropy) ==
    LET checksum == Sha256_digest0(salt, entropy)
        entropy_and_checksum == entropy \o <<checksum>>
    IN  [bit_reader |-> U11BitReader_new(entropy_and_checksum), mnemonic |-> <<>>,
         fault |-> FALSE]

Mnemonic_mnemonic(salt, entropy) ==
    LET len == Len(entropy)
    IN  IF InvalidEntropyLength(len) THEN Err(ErrEntropyLength)
        ELSE LET done == ReadWords(ReadStart(salt, entropy), MnemonicLen(len))
             IN  IF done.fault THEN Panic ELSE Ok(done.mnemonic)

(***************************************************************************)
(* U11BitWriter: writes data to a vector at the granularity of 11 bits.    *)
(***************************************************************************)
U11BitWriter_new(mnemonic_len) == [bytes |-> <<>>, unused |-> 8, buffer |-> 0]

\* Fill up a partial byte without "self.buffer <<= self.unused".
FillPartialUnshifted(writer, value) ==
    IF 11 >= writer.unused /\ writer.unused < 8
    THEN LET excess_bits == 11 - writer.unused
             filled == BitOr(writer.buffer,
                             BitAnd(Shr(value, excess_bits), MASKS[writer.unused + 1]))
         IN  [writer |-> [bytes |-> Append(writer.bytes, U8(filled)), unused |-> 8, buffer |-> 0],
              nbits_remaining |-> excess_bits]
    ELSE [writer |-> writer, nbits_remaining |-> 11]

\* Fill up a partial byte.
FillPartial(writer, value) ==
    IF 11 >= writer.unused /\ writer.unused < 8
    THEN LET excess_bits == 11 - writer.unused
             shifted == Shl16(writer.buffer, writer.unused)
             filled == BitOr(shifted, BitAnd(Shr(value, excess_bits), MASKS[writer.unused + 1]))
         IN  [writer |-> [bytes |-> Append(writer.bytes, U8(filled)), unused |-> 8, buffer |-> 0],
              nbits_remaining |-> excess_bits]
    ELSE [writer |-> writer, nbits_remaining |-> 11]

\* No full byte is pushed.
FillFullSkipped(st, value) == st

\* Fill up full byte.
RECURSIVE FillFull(_, _)
FillFull(st, value) ==
    IF st.nbits_remaining >= 8
    THEN LET remaining == st.nbits_remaining - 8
         IN  FillFull([writer |-> [st.writer EXCEPT !.bytes = Append(@, U8(Shr(value, remaining)))],
                       nbits_remaining |-> remaining], value)
    ELSE st

\* Put the value in the buffer without "& MASKS[nbits_remaining as usize]".
FillBufferUnmasked(st, value) ==
    IF st.nbits_remaining > 0
    THEN [st.writer EXCEPT
            !.buffer = BitOr(Shl16(@, st.nbits_remaining), value),
            !.unused = U16(@ - st.nbits_remaining)]
    ELSE st.writer

\* Put the remaining bits in the buffer.
FillBuffer(st, value) ==
    IF st.nbits_remaining > 0
    THEN [st.writer EXCEPT
            !.buffer = BitOr(Shl16(@, st.nbits_remaining),
                             BitAnd(value, MASKS[st.nbits_remaining + 1])),
            !.unused = U16(@ - st.nbits_remaining)]
    ELSE st.writer

write_u11(writer, value) == FillBuffer(FillFull(FillPartial(writer, value), value), value)

\* write_buffer without "if self.unused != 8".
write_buffer_always(writer) == [writer EXCEPT !.bytes = Append(@, U8(writer.buffer))]

\* write_buffer that moves the buffered bits to the high end of the byte.
write_buffer_high(writer) ==
    IF writer.unused /= 8
    THEN [writer EXCEPT !.bytes = Append(@, U8(Shl16(writer.buffer, writer.unused)))]
    ELSE writer

write_buffer(writer) ==
    IF writer.unused /= 8 THEN [writer EXCEPT !.bytes = Append(@, U8(writer.buffer))]
    ELSE writer

(***************************************************************************)
(* Mnemonic::from(s): generate mnemonic from string.                       *)
(***************************************************************************)
\* if len < 12 || len > 24
InvalidWordCountRange(n) == n < 12 \/ n > 24

\* if len < 12 || len > 24 || len % 3 != 0
InvalidWordCount(n) == n < 12 \/ n > 24 \/ n % 3 /= 0

\* One iteration that passes over a word binary_search misses.
WriteKnownWord(variant, st, word) ==
    LET idx == binary_search(variant, word)
    IN  IF idx >= 0
        THEN [unknown |-> FALSE,
              bit_writer |-> write_u11(st.bit_writer, U16(idx)),
              mnemonic |-> Append(st.mnemonic, WORDS[idx + 1])]
        ELSE st

\* One iteration of "for word in &words": push the word and write its index,
\* or return the unknown word error when binary_search misses.
WriteWord(variant, st, word) ==
    LET idx == binary_search(variant, word)
    IN  IF idx >= 0
        THEN [unknown |-> FALSE,
              bit_writer |-> write_u11(st.bit_writer, U16(idx)),
              mnemonic |-> Append(st.mnemonic, WORDS[idx + 1])]
        ELSE [st EXCEPT !.unknown = TRUE]

\* The iterations for words[lo..hi] from st; an unknown word ends the loop.
RECURSIVE WriteWords(_, _, _, _, _)
WriteWords(variant, words, lo, hi, st) ==
    IF lo > hi THEN st
    ELSE IF lo = hi THEN WriteWord(variant, st, words[lo])
    ELSE LET mid == (lo + hi) \div 2
             first == WriteWords(variant, words, lo, mid, st)
         IN  IF first.unknown THEN first ELSE WriteWords(variant, words, mid + 1, hi, first)

\* bytes.split_last(): all bytes but the last
SplitLastFront(bytes) == SubSeq(bytes, 1, Len(bytes) - 1)

\* After the loop, without the checksum validation.
Mnemonic_from_unchecked(salt, len, done) ==
    IF Len(write_buffer(done.bit_writer).bytes) = 0 THEN Panic ELSE Ok(done.mnemonic)

\* After the loop: write any remaining bits, split off the last byte and
\* validate the checksum.
Mnemonic_from_finish(salt, len, done) ==
    LET bytes == write_buffer(done.bit_writer).bytes
    IN  IF Len(bytes) = 0 THEN Panic
        ELSE LET checksum == bytes[Len(bytes)]
                 entropy == SplitLastFront(bytes)
                 computed_checksum == Shr(Sha256_digest0(salt, entropy), 8 - len \div 3)
             IN  IF checksum /= computed_checksum THEN Err(ErrChecksum)
                 ELSE Ok(done.mnemonic)

WriteStart(len) == [unknown |-> FALSE, bit_writer |-> U11BitWriter_new(len), mnemonic |-> <<>>]

Mnemonic_from(variant, salt, s) ==
    LET words == split(s)
        len == Len(words)
    IN  IF InvalidWordCount(len) THEN Err(ErrWordCount)
        ELSE LET done == WriteWords(variant, words, 1, len, WriteStart(len))
             IN  IF done.unknown THEN Err(ErrUnknownWord)
                 ELSE Mnemonic_from_finish(salt, len, done)

(***************************************************************************)
(* Inputs.  An entropy slice is given by its length and a byte pattern     *)
(* (first byte, step); a composed string is a count of dictionary words    *)
(* taken along an index pattern, optionally with one piece that is not a   *)
(* word.                                                                   *)
(***************************************************************************)
Entropy(len, first, step) == [i \in 1..len |-> (first + (i - 1) * step) % 256]

BytePatterns ==
    { <<0, 0>>, <<1, 0>>, <<255, 0>>, <<128, 0>>, <<128, 128>>, <<129, 127>>, <<158, 37>> }

Entropies == { Entropy(len, p[1], p[2]) : len \in 0..MaxEntropyLen, p \in BytePatterns }

NotAWord == <<122, 122, 122>>

IndexPatterns == { <<0, 0>>, <<2047, 0>>, <<1000, 411>> }

ComposeWords(n, first, step, bad) ==
    [i \in 1..n |-> IF (bad = 1 /\ i = 1) \/ (bad = 2 /\ i = n) THEN NotAWord
                    ELSE WORDS[((first + (i - 1) * step) % 2048) + 1]]

Texts ==
    { join(ComposeWords(n, p[1], p[2], bad)) : n \in 1..MaxWords, p \in IndexPatterns, bad \in 0..2 }

\* Transcription edits of a string.
ReplaceFirstSpace(s) ==
    IF SpacesOf(s) = {} THEN s
    ELSE LET space == CHOOSE i \in SpacesOf(s) : \A j \in SpacesOf(s) : i <= j
         IN  SubSeq(s, 1, space) \o <<SPACE>> \o SubSeq(s, space + 1, Len(s))

\* A dictionary word whose index differs from that of word in the lowest bit
\* only; a piece that is no dictionary word is kept.
Sibling(word) ==
    LET found == { i \in 1..Len(WORDS) : WORDS[i] = word }
        idx == (CHOOSE i \in found : TRUE) - 1
    IN  IF found = {} THEN word
        ELSE IF idx % 2 = 0 THEN WORDS[idx + 2] ELSE WORDS[idx]

Edit(kind, s) ==
    LET words == split(s)
    IN  CASE kind = 1 -> <<SPACE>> \o s
          [] kind = 2 -> s \o <<SPACE>>
          [] kind = 3 -> ReplaceFirstSpace(s)
          [] kind = 4 -> s \o <<NEWLINE>>
          [] kind = 5 -> join(SubSeq(words, 1, Len(words) - 1))
          [] kind = 6 -> join([words EXCEPT ![1] = NotAWord])
          [] kind = 7 -> join([words EXCEPT ![Len(words)] = WORDS[1]])
          [] kind = 8 -> join([words EXCEPT ![1] = WORDS[2048]])
          [] kind = 9 -> join([words EXCEPT ![1] = WORDS[1029]])
          [] kind = 10 -> join([words EXCEPT ![Len(words)] = Sibling(@)])

EditKinds == 1..10

\* Pairs of entropy slices: the slices whose length is a multiple of 4, each
\* with the slices that differ from it in one byte.
PairEntropies == { e \in Entropies : Len(e) >= 12 /\ Len(e) % 4 = 0 }

Near(e) == { [e EXCEPT ![k] = (@ + d) % 256] : k \in 1..Len(e), d \in {1, 128} }

\* Calls that run step by step.
CallIds == {1, 2}

StepEntropies == { Entropy(16, 0, 0), Entropy(20, 158, 37), Entropy(18, 0, 0) }

StepTexts ==
    { join(ComposeWords(12, 0, 0, 0)),
      join(Mnemonic_mnemonic(0, Entropy(16, 0, 0)).words),
      join(Mnemonic_mnemonic(0, Entropy(16, 0, 0)).words) \o <<NEWLINE>> }

NewCall(op, input) ==
    [op |-> op, pc |-> "start", input |-> input, words |-> <<>>, remaining |-> 0,
     rd |-> ReadStart(0, <<>>), wr |-> WriteStart(0), result |-> NotCalled]

StepCalls ==
    { NewCall("mnemonic", e) : e \in StepEntropies } \cup { NewCall("from", s) : s \in StepTexts }

(***************************************************************************)
(* State: the arguments and results of the calls made so far, and the      *)
(* calls in progress.                                                      *)
(***************************************************************************)
VARIABLES
    salt,            \* the digest function in use
    search,          \* the binary search loop of the standard library in use
    entropy,         \* argument of Mnemonic::mnemonic
    generated,       \* its result
    other,           \* argument of a second Mnemonic::mnemonic call
    otherGenerated,  \* its result
    text,            \* argument of Mnemonic::from
    parsed,          \* its result
    edits,           \* number of edits applied to text
    calls            \* the calls that run step by step, each with its locals

vars == <<salt, search, entropy, generated, other, otherGenerated, text, parsed, edits, calls>>

NoCalls == [c \in {} |-> NotCalled]

Init ==
    /\ salt \in 0..MaxSalt
    /\ search \in {0, 1}
    /\ \/ entropy \in Entropies /\ text = <<>>
       \/ entropy = <<>> /\ text \in Texts
    /\ other = <<>>
    /\ generated = NotCalled
    /\ otherGenerated = NotCalled
    /\ parsed = NotCalled
    /\ edits = 0
    /\ calls = NoCalls

\* let mnemonic = Mnemonic::mnemonic(&entropy)
Generate ==
    /\ generated = NotCalled
    /\ generated' = Mnemonic_mnemonic(salt, entropy)
    /\ UNCHANGED <<salt, search, entropy, other, otherGenerated, text, parsed, edits, calls>>

\* let other_mnemonic = Mnemonic::mnemonic(&other)
GenerateOther ==
    /\ otherGenerated = NotCalled
    /\ otherGenerated' = Mnemonic_mnemonic(salt, other)
    /\ UNCHANGED <<salt, search, entropy, generated, other, text, parsed, edits, calls>>

\* let text = mnemonic.to_string()
Serialize ==
    /\ generated.ok
    /\ text = <<>>
    /\ parsed = NotCalled
    /\ text' = to_string(generated.words)
    /\ UNCHANGED <<salt, search, entropy, generated, other, otherGenerated, parsed, edits, calls>>

\* the string is altered before it is parsed
Corrupt ==
    /\ text /= <<>>
    /\ parsed = NotCalled
    /\ edits < MaxEdits
    /\ \E kind \in EditKinds : text' = Edit(kind, text)
    /\ edits' = edits + 1
    /\ UNCHANGED <<salt, search, entropy, generated, other, otherGenerated, parsed, calls>>

\* let parsed = Mnemonic::from(&text)
Parse ==
    /\ parsed = NotCalled
    /\ parsed' = Mnemonic_from(search, salt, text)
    /\ UNCHANGED <<salt, search, entropy, generated, other, otherGenerated, text, edits, calls>>

Next == Generate \/ Serialize \/ Corrupt \/ Parse

Spec == Init /\ [][Next]_vars

(***************************************************************************)
(* Two Mnemonic::mnemonic calls on a pair of entropy slices.               *)
(***************************************************************************)
InitPair ==
    /\ salt \in 0..MaxSalt
    /\ search = 0
    /\ entropy \in PairEntropies
    /\ other \in PairEntropies \cup Near(entropy)
    /\ text = <<>>
    /\ generated = NotCalled
    /\ otherGenerated = NotCalled
    /\ parsed = NotCalled
    /\ edits = 0
    /\ calls = NoCalls

NextPair == Generate \/ GenerateOther

SpecPair == InitPair /\ [][NextPair]_vars

(***************************************************************************)
(* Calls that run step by step, interleaved: every call has its own        *)
(* locals (pieces, loop counter, bit reader or bit writer, mnemonic); the  *)
(* table WORDS is a constant that all of them read.                        *)
(***************************************************************************)
\* One bit reader and mnemonic for all calls.
SharedReadLocals(cs, c) == cs[1].rd

\* The locals "bit_reader" and "mnemonic" of call c of Mnemonic::mnemonic.
ReadLocals(cs, c) == cs[c].rd

\* The locals "bit_writer" and "mnemonic" of call c of Mnemonic::from.
WriteLocals(cs, c) == cs[c].wr

Return(call, result) == [call EXCEPT !.pc = "done", !.result = result]

InitSteps ==
    /\ salt \in 0..MaxSalt
    /\ search \in {0, 1}
    /\ entropy = <<>>
    /\ other = <<>>
    /\ text = <<>>
    /\ generated = NotCalled
    /\ otherGenerated = NotCalled
    /\ parsed = NotCalled
    /\ edits = 0
    /\ calls \in [CallIds -> StepCalls]

\* Mnemonic::mnemonic up to the loop: the length check, the checksum byte
\* and the reader.
MnemonicBegin(c) ==
    /\ calls[c].op = "mnemonic"
    /\ calls[c].pc = "start"
    /\ LET len == Len(calls[c].input)
       IN  calls' = [calls EXCEPT ![c] =
                IF InvalidEntropyLength(len) THEN Return(@, Err(ErrEntropyLength))
                ELSE [@ EXCEPT !.pc = "loop", !.remaining = MnemonicLen(len),
                               !.rd = ReadStart(salt, calls[c].input)]]
    /\ UNCHANGED <<salt, search, entropy, generated, other, otherGenerated, text, parsed, edits>>

\* One iteration of the loop of Mnemonic::mnemonic.
MnemonicRead(c) ==
    /\ calls[c].op = "mnemonic"
    /\ calls[c].pc = "loop"
    /\ calls[c].remaining > 0
    /\ LET st == ReadWord(ReadLocals(calls, c))
       IN  calls' = [calls EXCEPT ![c] =
                IF st.fault THEN Return([@ EXCEPT !.rd = st], Panic)
                ELSE [@ EXCEPT !.rd = st, !.remaining = @ - 1]]
    /\ UNCHANGED <<salt, search, entropy, generated, other, otherGenerated, text, parsed, edits>>

\* Ok(Mnemonic(mnemonic))
MnemonicReturn(c) ==
    /\ calls[c].op = "mnemonic"
    /\ calls[c].pc = "loop"
    /\ calls[c].remaining = 0
    /\ calls' = [calls EXCEPT ![c] = Return(@, Ok(ReadLocals(calls, c).mnemonic))]
    /\ UNCHANGED <<salt, search, entropy, generated, other, otherGenerated, text, parsed, edits>>

\* Mnemonic::from up to the loop: the split, the count check and the writer.
FromBegin(c) ==
    /\ calls[c].op = "from"
    /\ calls[c].pc = "start"
    /\ LET words == split(calls[c].input)
           len == Len(words)
       IN  calls' = [calls EXCEPT ![c] =
                IF InvalidWordCount(len) THEN Return(@, Err(ErrWordCount))
                ELSE [@ EXCEPT !.pc = "loop", !.words = words, !.remaining = len,
                               !.wr = WriteStart(len)]]
    /\ UNCHANGED <<salt, search, entropy, generated, other, otherGenerated, text, parsed, edits>>

\* One iteration of the loop of Mnemonic::from.
FromWord(c) ==
    /\ calls[c].op = "from"
    /\ calls[c].pc = "loop"
    /\ calls[c].remaining > 0
    /\ LET word == calls[c].words[Len(calls[c].words) - calls[c].remaining + 1]
           st == WriteWord(search, WriteLocals(calls, c), word)
       IN  calls' = [calls EXCEPT ![c] =
                IF st.unknown THEN Return([@ EXCEPT !.wr = st], Err(ErrUnknownWord))
                ELSE [@ EXCEPT !.wr = st, !.remaining = @ - 1]]
    /\ UNCHANGED <<salt, search, entropy, generated, other, otherGenerated, text, parsed, edits>>

\* Mnemonic::from after the loop: the last byte and the checksum validation.
FromFinish(c) ==
    /\ calls[c].op = "from"
    /\ calls[c].pc = "loop"
    /\ calls[c].remaining = 0
    /\ calls' = [calls EXCEPT ![c] =
            Return([@ EXCEPT !.wr.bit_writer = write_buffer(WriteLocals(calls, c).bit_writer)],
                   Mnemonic_from_finish(salt, Len(calls[c].words), WriteLocals(calls, c)))]
    /\ UNCHANGED <<salt, search, entropy, generated, other, otherGenerated, text, parsed, edits>>

NextSteps ==
    \E c \in CallIds :
        \/ MnemonicBegin(c)
        \/ MnemonicRead(c)
        \/ MnemonicReturn(c)
        \/ FromBegin(c)
        \/ FromWord(c)
        \/ FromFinish(c)

SpecSteps == InitSteps /\ [][NextSteps]_vars

(***************************************************************************)
(* One Mnemonic::mnemonic call, step by step, on every entropy slice.      *)
(***************************************************************************)
EncodeCalls == { NewCall("mnemonic", e) : e \in Entropies }

InitEncode ==
    /\ salt \in 0..MaxSalt
    /\ search = 0
    /\ entropy = <<>>
    /\ other = <<>>
    /\ text = <<>>
    /\ generated = NotCalled
    /\ otherGenerated = NotCalled
    /\ parsed = NotCalled
    /\ edits = 0
    /\ calls \in [{1} -> EncodeCalls]

NextEncode == MnemonicBegin(1) \/ MnemonicRead(1) \/ MnemonicReturn(1)

SpecEncode == InitEncode /\ [][NextEncode]_vars

(***************************************************************************)
(* Two Mnemonic::mnemonic calls on one entropy slice under two digest      *)
(* functions, from the point where the digest has returned: each call has  *)
(* its own checksum byte.                                                  *)
(***************************************************************************)
TailEntropies == { Entropy(len, p[1], p[2]) : len \in {16, 28, 32}, p \in {<<0, 0>>, <<158, 37>>} }

ChecksumPairs ==
    { <<0, 15>>, <<0, 16>>, <<170, 171>>, <<255, 240>>, <<128, 129>>, <<85, 85>> }

TailCall(e, checksum) ==
    [NewCall("mnemonic", e) EXCEPT
        !.pc = "loop",
        !.remaining = MnemonicLen(Len(e)),
        !.rd = [bit_reader |-> U11BitReader_new(e \o <<checksum>>), mnemonic |-> <<>>,
                fault |-> FALSE]]

InitTail ==
    /\ salt = 0
    /\ search = 0
    /\ entropy = <<>>
    /\ other = <<>>
    /\ text = <<>>
    /\ generated = NotCalled
    /\ otherGenerated = NotCalled
    /\ parsed = NotCalled
    /\ edits = 0
    /\ \E e \in TailEntropies, pair \in ChecksumPairs :
          calls = [c \in CallIds |-> TailCall(e, pair[c])]

NextTail == \E c \in CallIds : MnemonicRead(c) \/ MnemonicReturn(c)

SpecTail == InitTail /\ [][NextTail]_vars

(***************************************************************************)
(* One U11BitWriter: values below 2048 are written one by one, and         *)
(* write_buffer is called after any number of them.                        *)
(***************************************************************************)
\* precondition!(mnemonic_len <= 24)
MaxWrites == 24

ValuePatterns ==
    { <<0, 0>>, <<2047, 0>>, <<1000, 411>>, <<1365, 0>>, <<1, 1>>, <<682, 683>>, <<1024, 1023>> }

WriterCalls ==
    { [NewCall("writer", [i \in 1..MaxWrites |-> (p[1] + (i - 1) * p[2]) % 2048]) EXCEPT
          !.pc = "loop", !.remaining = MaxWrites, !.wr = WriteStart(MaxWrites)]
      : p \in ValuePatterns }

InitWriter ==
    /\ salt = 0
    /\ search = 0
    /\ entropy = <<>>
    /\ other = <<>>
    /\ text = <<>>
    /\ generated = NotCalled
    /\ otherGenerated = NotCalled
    /\ parsed = NotCalled
    /\ edits = 0
    /\ calls \in [{1} -> WriterCalls]

\* bit_writer.write_u11(value)
WriterWrite(c) ==
    /\ calls[c].op = "writer"
    /\ calls[c].pc = "loop"
    /\ calls[c].remaining > 0
    /\ LET value == calls[c].input[Len(calls[c].input) - calls[c].remaining + 1]
       IN  calls' = [calls EXCEPT ![c].wr.bit_writer = write_u11(@, value),
                                  ![c].remaining = @ - 1]
    /\ UNCHANGED <<salt, search, entropy, generated, other, otherGenerated, text, parsed, edits>>

\* bit_writer.write_buffer()
WriterFinish(c) ==
    /\ calls[c].op = "writer"
    /\ calls[c].pc = "loop"
    /\ calls' = [calls EXCEPT ![c].wr.bit_writer = write_buffer(@), ![c].pc = "done"]
    /\ UNCHANGED <<salt, search, entropy, generated, other, otherGenerated, text, parsed, edits>>

NextWriter == WriterWrite(1) \/ WriterFinish(1)

SpecWriter == InitWriter /\ [][NextWriter]_vars

(***************************************************************************)
(* One Mnemonic::from call, step by step, on composed strings and on the   *)
(* strings Mnemonic::mnemonic gives.                                       *)
(***************************************************************************)
GeneratedTexts ==
    { to_string(Mnemonic_mnemonic(s, e).words) :
        s \in 0..MaxSalt, e \in { x \in Entropies : ~InvalidEntropyLength(Len(x)) } }

DecodeCalls == { NewCall("from", s) : s \in Texts \cup GeneratedTexts }

InitDecode ==
    /\ salt \in 0..MaxSalt
    /\ search \in {0, 1}
    /\ entropy = <<>>
    /\ other = <<>>
    /\ text = <<>>
    /\ generated = NotCalled
    /\ otherGenerated = NotCalled
    /\ parsed = NotCalled
    /\ edits = 0
    /\ calls \in [{1} -> DecodeCalls]

NextDecode == FromBegin(1) \/ FromWord(1) \/ FromFinish(1)

SpecDecode == InitDecode /\ [][NextDecode]_vars

(***************************************************************************)
(* Vocabulary of the properties.                                           *)
(***************************************************************************)
AcceptedLengths == {16, 20, 24, 28, 32}

AcceptedCounts == {12, 15, 18, 21, 24}

WordSet == { WORDS[i] : i \in 1..Len(WORDS) }

\* Number of pieces of s between single spaces.
IsSpace(c) == c = SPACE

PieceCount(s) == Len(SelectSeq(s, IsSpace)) + 1

AllDictionaryWords(s) == \A i \in 1..Len(split(s)) : split(s)[i] \in WordSet

\* Position of a dictionary word in the table, counted from 0.
IndexOf(word) == CHOOSE i \in 0..(Len(WORDS) - 1) : WORDS[i + 1] = word

IndicesOf(s) == [i \in 1..Len(split(s)) |-> IndexOf(split(s)[i])]

\* Bit j (from 0) of the stream of 11-bit groups, most significant bit first.
BitAt(indices, j) == (indices[(j \div 11) + 1] \div Pow2(10 - (j % 11))) % 2

\* The number written by count stream bits starting at bit from.
RECURSIVE BitsValue(_, _, _)
BitsValue(indices, from, count) ==
    IF count = 0 THEN 0
    ELSE 2 * BitsValue(indices, from, count - 1) + BitAt(indices, from + count - 1)

PackedEntropy(indices) ==
    [b \in 1..((4 * Len(indices)) \div 3) |-> BitsValue(indices, 8 * (b - 1), 8)]

CarriedChecksum(indices) ==
    BitsValue(indices, 8 * ((4 * Len(indices)) \div 3), Len(indices) \div 3)

ChecksumMatches(s) ==
    LET indices == IndicesOf(s)
    IN  CarriedChecksum(indices)
          = Shr(Sha256_digest0(salt, PackedEntropy(indices)), 8 - Len(indices) \div 3)

abandon == <<97, 98, 97, 110, 100, 111, 110>>

about == <<97, 98, 111, 117, 116>>

zoo == <<122, 111, 111>>

wrong == <<119, 114, 111, 110, 103>>

AbandonAbout == [i \in 1..12 |-> IF i < 12 THEN abandon ELSE about]

ZooWrong == [i \in 1..12 |-> IF i < 12 THEN zoo ELSE wrong]

(***************************************************************************)
(* C1: round trip.  For every entropy of an accepted length and every      *)
(* digest, Mnemonic::from(Mnemonic::mnemonic(e).to_string()) succeeds and  *)
(* yields the word sequence of Mnemonic::mnemonic(e).                      *)
(***************************************************************************)
C1_RoundTrip ==
    (/\ generated.ok
     /\ edits = 0
     /\ text = to_string(generated.words)
     /\ parsed /= NotCalled)
    => (parsed.ok /\ parsed.words = generated.words)

(***************************************************************************)
(* C2: Mnemonic::mnemonic fails, with the entropy length error, exactly    *)
(* when the byte length is not one of 16, 20, 24, 28, 32; the lengths 0,   *)
(* 8, 18, 36 are rejected and the five accepted lengths succeed.           *)
(***************************************************************************)
C2_EntropyLength ==
    generated /= NotCalled =>
        /\ (generated = Err(ErrEntropyLength)) <=> (Len(entropy) \notin AcceptedLengths)
        /\ generated.ok <=> (Len(entropy) \in AcceptedLengths)
        /\ Len(entropy) \in {0, 8, 18, 36} => generated = Err(ErrEntropyLength)

C2_Witness ==
    /\ Len(entropy) = 18
    /\ generated = Err(ErrEntropyLength)

(***************************************************************************)
(* C3: Mnemonic::from fails with the word count error exactly when the     *)
(* number of pieces between single spaces is not one of 12, 15, 18, 21,    *)
(* 24; the empty string, one empty piece, is rejected this way.            *)
(***************************************************************************)
C3_WordCount ==
    parsed /= NotCalled =>
        /\ (parsed = Err(ErrWordCount)) <=> (PieceCount(text) \notin AcceptedCounts)
        /\ text = <<>> => parsed = Err(ErrWordCount)

C3_Witness ==
    /\ PieceCount(text) = 27
    /\ parsed = Err(ErrWordCount)

(***************************************************************************)
(* C4: Mnemonic::from reports the first violated check in the order word   *)
(* count, dictionary membership, checksum: a wrong count gives the count   *)
(* error even with unknown words; a right count with a piece that is not   *)
(* in the dictionary gives the unknown word error; the checksum error is   *)
(* returned only when the count is right and every piece is in the         *)
(* dictionary.                                                             *)
(***************************************************************************)
C4_ErrorOrder ==
    parsed /= NotCalled =>
        /\ PieceCount(text) \notin AcceptedCounts => parsed = Err(ErrWordCount)
        /\ (PieceCount(text) \in AcceptedCounts /\ ~AllDictionaryWords(text))
              => parsed = Err(ErrUnknownWord)
        /\ parsed = Err(ErrChecksum)
              => (PieceCount(text) \in AcceptedCounts /\ AllDictionaryWords(text))

C4_Witness ==
    /\ PieceCount(text) \in AcceptedCounts
    /\ ~AllDictionaryWords(text)
    /\ split(text)[1] \in WordSet
    /\ parsed = Err(ErrUnknownWord)

(***************************************************************************)
(* C5: for a string of n dictionary words, n one of 12, 15, 18, 21, 24,    *)
(* Mnemonic::from succeeds exactly when the checksum bits carried by the   *)
(* words equal hash(entropy)[0] >> (8 - n/3), and fails with the checksum  *)
(* error otherwise.                                                        *)
(***************************************************************************)
C5_ChecksumDecides ==
    (/\ parsed /= NotCalled
     /\ PieceCount(text) \in AcceptedCounts
     /\ AllDictionaryWords(text))
    => IF ChecksumMatches(text) THEN parsed.ok ELSE parsed = Err(ErrChecksum)

(***************************************************************************)
(* C6: for every accepted entropy length len, Mnemonic::mnemonic returns   *)
(* len * 3 / 4 words (16 -> 12, 20 -> 15, 24 -> 18, 28 -> 21, 32 -> 24)    *)
(* and the entropy bits plus the len / 4 checksum bits are 11 times that   *)
(* word count.                                                             *)
(***************************************************************************)
C6_WordCountOfLength ==
    (generated /= NotCalled /\ Len(entropy) \in AcceptedLengths) =>
        /\ generated.ok
        /\ 4 * Len(generated.words) = 3 * Len(entropy)
        /\ <<Len(entropy), Len(generated.words)>>
              \in {<<16, 12>>, <<20, 15>>, <<24, 18>>, <<28, 21>>, <<32, 24>>}
        /\ 8 * Len(entropy) + Len(entropy) \div 4 = 11 * Len(generated.words)

C6_Witness ==
    /\ Len(entropy) = 28
    /\ generated.ok
    /\ Len(generated.words) = 21

(***************************************************************************)
(* C7: whenever Mnemonic::from succeeds on s, the Mnemonic holds the       *)
(* pieces of s in their order and its to_string() is s; so no accepted     *)
(* string has a leading, trailing or doubled space or a trailing newline.  *)
(***************************************************************************)
C7_AcceptedIsCanonical ==
    parsed.ok =>
        /\ Len(parsed.words) = PieceCount(text)
        /\ to_string(parsed.words) = text
        /\ text[1] /= SPACE
        /\ text[Len(text)] \notin {SPACE, NEWLINE}
        /\ \A i \in 1..(Len(text) - 1) : ~(text[i] = SPACE /\ text[i + 1] = SPACE)

C7_Witness ==
    /\ parsed.ok
    /\ edits = 1
    /\ to_string(parsed.words) = text

(***************************************************************************)
(* C8: Mnemonic::mnemonic is injective on valid entropy: two different     *)
(* valid entropy slices, of equal or different lengths, give different     *)
(* word sequences.                                                         *)
(***************************************************************************)
C8_Injective ==
    /\ Cardinality(WordSet) = Len(WORDS)
    /\ (generated.ok /\ otherGenerated.ok /\ entropy /= other)
          => generated.words /= otherGenerated.words

C8_Witness ==
    /\ generated.ok
    /\ otherGenerated.ok
    /\ Len(entropy) = Len(other)
    /\ Cardinality({ k \in 1..Len(entropy) : entropy[k] /= other[k] }) = 1
    /\ generated.words /= otherGenerated.words

(***************************************************************************)
(* C9: the result of a call depends only on its own input: every call run  *)
(* step by step and interleaved with another returns what the same call    *)
(* returns when run alone, and two calls on identical inputs return        *)
(* identical results.                                                      *)
(***************************************************************************)
AloneResult(call) ==
    IF call.op = "mnemonic" THEN Mnemonic_mnemonic(salt, call.input)
    ELSE Mnemonic_from(search, salt, call.input)

C9_CallsIndependent ==
    /\ \A c \in DOMAIN calls :
          calls[c].pc = "done" => calls[c].result = AloneResult(calls[c])
    /\ \A c, d \in DOMAIN calls :
          (/\ calls[c].pc = "done"
           /\ calls[d].pc = "done"
           /\ calls[c].op = calls[d].op
           /\ calls[c].input = calls[d].input)
          => calls[c].result = calls[d].result

C9_Witness ==
    /\ DOMAIN calls = CallIds
    /\ \A c \in CallIds : calls[c].pc = "done" /\ calls[c].op = "mnemonic" /\ calls[c].result.ok
    /\ calls[1].input = calls[2].input
    /\ calls[1].result = calls[2].result

(***************************************************************************)
(* C10: the BIP39 vectors hold in both directions under SHA-256: 16 bytes  *)
(* of 0x00 give eleven "abandon" and "about", 16 bytes of 0xff give eleven *)
(* "zoo" and "wrong", and Mnemonic::from accepts both strings.             *)
(***************************************************************************)
C10_KnownVectors ==
    salt = 0 =>
        /\ (generated /= NotCalled /\ entropy = [i \in 1..16 |-> 0])
              => generated = Ok(AbandonAbout)
        /\ (generated /= NotCalled /\ entropy = [i \in 1..16 |-> 255])
              => generated = Ok(ZooWrong)
        /\ (parsed /= NotCalled /\ text \in {join(AbandonAbout), join(ZooWrong)})
              => parsed.ok

C10_Witness ==
    /\ salt = 0
    /\ entropy = [i \in 1..16 |-> 255]
    /\ generated = Ok(ZooWrong)
    /\ text = join(ZooWrong)
    /\ parsed = Ok(ZooWrong)

(***************************************************************************)
(* C11: replacing one word of a valid mnemonic by a different word makes   *)
(* Mnemonic::from fail: with the unknown word error when the new word is   *)
(* not in the dictionary, otherwise with the checksum error, unless the    *)
(* checksum bits the altered words carry match the hash of the altered     *)
(* entropy; replacing the last word by one that differs in its checksum    *)
(* bits only always gives the checksum error.                              *)
(***************************************************************************)
ChangedPieces(original, pieces) == { i \in 1..Len(original) : pieces[i] /= original[i] }

OneWordReplaced ==
    /\ generated.ok
    /\ edits = 1
    /\ parsed /= NotCalled
    /\ Len(split(text)) = Len(generated.words)
    /\ Cardinality(ChangedPieces(generated.words, split(text))) = 1
    /\ Mnemonic_from(search, salt, to_string(generated.words)).ok

C11_SingleWordReplaced ==
    OneWordReplaced =>
        LET original == generated.words
            pieces == split(text)
            n == Len(original)
            i == CHOOSE k \in ChangedPieces(original, pieces) : TRUE
        IN  /\ parsed.ok => ChecksumMatches(text)
            /\ pieces[i] \notin WordSet => parsed = Err(ErrUnknownWord)
            /\ (pieces[i] \in WordSet /\ ~ChecksumMatches(text)) => parsed = Err(ErrChecksum)
            /\ (/\ pieces[i] \in WordSet
                /\ i = n
                /\ Shr(IndexOf(pieces[i]), n \div 3) = Shr(IndexOf(original[i]), n \div 3))
               => parsed = Err(ErrChecksum)

(***************************************************************************)
(* C12: Mnemonic::mnemonic never fails after the length check: for every   *)
(* accepted length len, the buffer read has len + 1 bytes, each of the     *)
(* len * 3 / 4 read_u11 calls touches byte indices 0..len only and returns *)
(* a value in 0..2047, and a Mnemonic is returned.                         *)
(***************************************************************************)
PastLengthCheck(call) ==
    /\ call.op = "mnemonic"
    /\ call.pc /= "start"
    /\ Len(call.input) \in AcceptedLengths

C12_EncodeNeverFails ==
    \A c \in DOMAIN calls :
        PastLengthCheck(calls[c]) =>
            LET len == Len(calls[c].input)
                reader == calls[c].rd.bit_reader
                k == Len(calls[c].rd.mnemonic)
            IN  /\ ~calls[c].rd.fault
                /\ calls[c].result /= Panic
                /\ Len(reader.bytes) = len + 1
                /\ k + calls[c].remaining = (len * 3) \div 4
                /\ reader.position = 11 * k
                /\ k > 0 => (reader.position - 1) \div 8 \in 0..len
                /\ reader.value \in 0..2047
                /\ reader.value < Len(WORDS)
                /\ calls[c].pc = "done"
                      => (calls[c].result.ok /\ Len(calls[c].result.words) = (len * 3) \div 4)

C12_Witness ==
    /\ DOMAIN calls = {1}
    /\ calls[1].pc = "done"
    /\ Len(calls[1].input) = 32
    /\ calls[1].result.ok
    /\ calls[1].rd.bit_reader.position = 264

(***************************************************************************)
(* C17: read_u11 at bit cursor p returns the integer in 0..2047 whose      *)
(* bits, most significant first, are buffer bits p..p+10, advances the     *)
(* cursor to p + 11 and leaves the buffer unchanged; k successive reads    *)
(* return the k consecutive 11-bit groups of the buffer in order.          *)
(***************************************************************************)
\* Bit i (from 0) of a byte buffer, the most significant bit of a byte first.
BufferBit(bytes, i) == (bytes[(i \div 8) + 1] \div Pow2(7 - (i % 8))) % 2

\* The number written by count buffer bits starting at bit from.
RECURSIVE BufferBits(_, _, _)
BufferBits(bytes, from, count) ==
    IF count = 0 THEN 0
    ELSE 2 * BufferBits(bytes, from, count - 1) + BufferBit(bytes, from + count - 1)

\* The j-th (from 1) 11-bit group of a byte buffer.
GroupOf(bytes, j) == BufferBits(bytes, 11 * (j - 1), 11)

C17_ReadsGroupsInOrder ==
    \A c \in DOMAIN calls :
        (PastLengthCheck(calls[c]) /\ Len(calls[c].rd.mnemonic) > 0) =>
            LET reader == calls[c].rd.bit_reader
                k == Len(calls[c].rd.mnemonic)
                buffer == calls[c].input \o <<Sha256_digest0(salt, calls[c].input)>>
            IN  /\ reader.bytes = buffer
                /\ reader.position = 11 * k
                /\ reader.value = GroupOf(buffer, k)
                /\ reader.value \in 0..2047
                /\ \A j \in 1..k : calls[c].rd.mnemonic[j] = WORDS[GroupOf(buffer, j) + 1]

C17_Witness ==
    /\ DOMAIN calls = {1}
    /\ calls[1].pc = "done"
    /\ calls[1].input = Entropy(32, 158, 37)
    /\ calls[1].rd.bit_reader.position = 264
    /\ calls[1].rd.bit_reader.value = GroupOf(calls[1].rd.bit_reader.bytes, 24)
    /\ calls[1].result.ok

(***************************************************************************)
(* C18: the trailing bits of the checksum byte are never read by           *)
(* Mnemonic::mnemonic: for entropy of length len, two checksum bytes that  *)
(* agree on their top len / 4 bits give the same words, whatever their low *)
(* 8 - len / 4 bits are.                                                   *)
(***************************************************************************)
ChecksumByte(call) == call.rd.bit_reader.bytes[Len(call.input) + 1]

TopBits(call) == Shr(ChecksumByte(call), 8 - Len(call.input) \div 4)

Returned(call) == PastLengthCheck(call) /\ call.pc = "done"

C18_TrailingBitsUnread ==
    \A c, d \in DOMAIN calls :
        (/\ Returned(calls[c])
         /\ Returned(calls[d])
         /\ calls[c].input = calls[d].input
         /\ TopBits(calls[c]) = TopBits(calls[d]))
        => (calls[c].result.ok /\ calls[c].result = calls[d].result)

C18_Witness ==
    /\ DOMAIN calls = CallIds
    /\ Returned(calls[1])
    /\ Returned(calls[2])
    /\ Len(calls[1].input) = 28
    /\ ChecksumByte(calls[1]) /= ChecksumByte(calls[2])
    /\ TopBits(calls[1]) = TopBits(calls[2])
    /\ calls[1].result.ok
    /\ calls[1].result = calls[2].result

(***************************************************************************)
(* C13 as stated: write_buffer flushes a buffered partial byte shifted     *)
(* left into the high bits, the low bits zero: after k writes with         *)
(* r = 11k mod 8 > 0 the byte appended is the last r written bits shifted  *)
(* left by 8 - r.                                                          *)
(***************************************************************************)
Written(call) == Len(call.input) - call.remaining

Flushed(call) == call.op = "writer" /\ call.pc = "done" /\ (11 * Written(call)) % 8 > 0

LastByte(call) == call.wr.bit_writer.bytes[Len(call.wr.bit_writer.bytes)]

\* The last r bits written, r = 11k mod 8, as a number.
LastBits(call) ==
    LET r == (11 * Written(call)) % 8
    IN  BitsValue(call.input, 11 * Written(call) - r, r)

C13_FlushLeftAligned ==
    \A c \in DOMAIN calls :
        Flushed(calls[c]) =>
            LastByte(calls[c]) = LastBits(calls[c]) * Pow2(8 - ((11 * Written(calls[c])) % 8))

(***************************************************************************)
(* C13 amended: write_buffer flushes a buffered partial byte right-aligned *)
(* in the low bits, the high bits zero: after k writes with                *)
(* r = 11k mod 8 > 0 one byte is appended, and it is the number the last r *)
(* written bits spell, below 2^r.                                          *)
(***************************************************************************)
C13_FlushRightAligned ==
    \A c \in DOMAIN calls :
        Flushed(calls[c]) =>
            /\ Len(calls[c].wr.bit_writer.bytes) = ((11 * Written(calls[c])) \div 8) + 1
            /\ LastByte(calls[c]) = LastBits(calls[c])
            /\ LastByte(calls[c]) < Pow2((11 * Written(calls[c])) % 8)

C13_Witness ==
    /\ DOMAIN calls = {1}
    /\ Flushed(calls[1])
    /\ Written(calls[1]) = 12
    /\ LastByte(calls[1]) = 15
    /\ LastBits(calls[1]) = 15

(***************************************************************************)
(* C15: after k <= 24 write_u11 calls with values below 2048 the writer    *)
(* has taken exactly 11k bits in order, most significant bit first: bytes  *)
(* holds the floor(11k / 8) leading bytes of the concatenation of the k    *)
(* values, buffer holds the remaining 11k mod 8 bits, and                  *)
(* unused = 8 - (11k mod 8).                                               *)
(***************************************************************************)
C15_WriterHoldsBits ==
    \A c \in DOMAIN calls :
        (calls[c].op = "writer" /\ calls[c].pc = "loop") =>
            LET k == Written(calls[c])
                writer == calls[c].wr.bit_writer
            IN  /\ writer.bytes = [b \in 1..((11 * k) \div 8) |->
                                      BitsValue(calls[c].input, 8 * (b - 1), 8)]
                /\ writer.buffer = BitsValue(calls[c].input, 8 * ((11 * k) \div 8), (11 * k) % 8)
                /\ writer.unused = 8 - ((11 * k) % 8)

C15_Witness ==
    /\ DOMAIN calls = {1}
    /\ calls[1].op = "writer"
    /\ calls[1].pc = "loop"
    /\ Written(calls[1]) = 23
    /\ calls[1].input[2] = 1411
    /\ Len(calls[1].wr.bit_writer.bytes) = 31
    /\ calls[1].wr.bit_writer.unused = 3

(***************************************************************************)
(* C14: in Mnemonic::from, for every valid word count n, the checksum byte *)
(* split off the packed buffer carries the n / 3 checksum bits of the      *)
(* words right-aligned in its low n / 3 bits, its upper 8 - n / 3 bits     *)
(* zero: the alignment of hash(entropy)[0] >> (8 - n / 3), the value it is *)
(* compared with.                                                          *)
(***************************************************************************)
\* The call has left the loop over its words and returned.
PastLoop(call) ==
    /\ call.op = "from"
    /\ call.pc = "done"
    /\ call.remaining = 0
    /\ ~call.wr.unknown
    /\ Len(call.words) \in AcceptedCounts

PackedBytes(call) == call.wr.bit_writer.bytes

C14_ChecksumRightAligned ==
    \A c \in DOMAIN calls :
        PastLoop(calls[c]) =>
            LET n == Len(calls[c].words)
                checksum == PackedBytes(calls[c])[Len(PackedBytes(calls[c]))]
                computed_checksum ==
                    Shr(Sha256_digest0(salt, SplitLastFront(PackedBytes(calls[c]))), 8 - n \div 3)
            IN  /\ checksum = CarriedChecksum(IndicesOf(calls[c].input))
                /\ checksum < Pow2(n \div 3)
                /\ computed_checksum < Pow2(n \div 3)
                /\ calls[c].result.ok <=> (checksum = computed_checksum)

C14_Witness ==
    /\ DOMAIN calls = {1}
    /\ PastLoop(calls[1])
    /\ Len(calls[1].words) = 15
    /\ calls[1].result.ok
    /\ PackedBytes(calls[1])[21] \in 1..31

(***************************************************************************)
(* C16: in Mnemonic::from, for every valid word count n, the packed buffer *)
(* after all writes and write_buffer has exactly 4n / 3 + 1 bytes, so the  *)
(* split gives an entropy of 4n / 3 bytes (16, 20, 24, 28 or 32) and one   *)
(* checksum byte; for n = 24, where 11n is a multiple of 8, write_buffer   *)
(* appends nothing.                                                        *)
(***************************************************************************)
C16_PackedLength ==
    \A c \in DOMAIN calls :
        PastLoop(calls[c]) =>
            LET n == Len(calls[c].words)
            IN  /\ Len(PackedBytes(calls[c])) = ((4 * n) \div 3) + 1
                /\ Len(SplitLastFront(PackedBytes(calls[c]))) = (4 * n) \div 3
                /\ Len(SplitLastFront(PackedBytes(calls[c]))) \in AcceptedLengths
                /\ n = 24 => (calls[c].wr.bit_writer.unused = 8 /\ Len(PackedBytes(calls[c])) = 33)

C16_Witness ==
    /\ DOMAIN calls = {1}
    /\ PastLoop(calls[1])
    /\ Len(calls[1].words) = 24
    /\ Len(PackedBytes(calls[1])) = 33
    /\ calls[1].wr.bit_writer.unused = 8

(***************************************************************************)
(* C19: the writer has no fault on any Mnemonic::from execution: the       *)
(* precondition mnemonic_len <= 24 holds where the writer is made, after   *)
(* every write_u11 the state has 1 <= unused <= 8 and                      *)
(* buffer < 2^(8 - unused), the assertion nbits_remaining < 8 holds, every *)
(* MASKS index is within 0..7, and no u16 shift or subtraction overflows   *)
(* or underflows.                                                          *)
(***************************************************************************)
\* The call has made its writer.
HasWriter(call) ==
    /\ call.op = "from"
    /\ call.pc /= "start"
    /\ Len(call.words) \in AcceptedCounts

\* The next write_u11 of the call, if there is one, runs without a fault.
NextWriteSound(call) ==
    LET writer == call.wr.bit_writer
        idx == binary_search(search, call.words[Len(call.words) - call.remaining + 1])
        partial == FillPartial(writer, idx)
        full == FillFull(partial, idx)
    IN  idx >= 0 =>
            /\ idx < 2048
            /\ writer.unused < 8 => (writer.unused <= 11 /\ writer.unused \in 0..7)
            /\ partial.nbits_remaining \in 0..15
            /\ full.nbits_remaining < 8
            /\ full.nbits_remaining \in 0..7
            /\ full.nbits_remaining <= full.writer.unused

C19_WriterSound ==
    \A c \in DOMAIN calls :
        HasWriter(calls[c]) =>
            /\ Len(calls[c].words) <= MaxWrites
            /\ calls[c].wr.bit_writer.unused \in 1..8
            /\ calls[c].wr.bit_writer.buffer < Pow2(8 - calls[c].wr.bit_writer.unused)
            /\ (11 * Len(calls[c].wr.mnemonic)) < 65536
            /\ (calls[c].pc = "loop" /\ calls[c].remaining > 0) => NextWriteSound(calls[c])

C19_Witness ==
    /\ DOMAIN calls = {1}
    /\ HasWriter(calls[1])
    /\ calls[1].pc = "loop"
    /\ Len(calls[1].words) = 21
    /\ calls[1].remaining = 1
    /\ calls[1].wr.bit_writer.unused = 4
    /\ NextWriteSound(calls[1])

(***************************************************************************)
(* C20: Mnemonic::from accepts only what Mnemonic::mnemonic gives:         *)
(* whenever Mnemonic::from(s) succeeds, the entropy e recovered from the   *)
(* packed buffer (all bytes but the last) has an accepted length and       *)
(* Mnemonic::mnemonic(e).to_string() is s.                                 *)
(***************************************************************************)
C20_AcceptedIsGenerated ==
    \A c \in DOMAIN calls :
        (calls[c].op = "from" /\ calls[c].pc = "done" /\ calls[c].result.ok) =>
            LET e == SplitLastFront(PackedBytes(calls[c]))
            IN  /\ Len(e) \in AcceptedLengths
                /\ Mnemonic_mnemonic(salt, e).ok
                /\ to_string(Mnemonic_mnemonic(salt, e).words) = calls[c].input

C20_Witness ==
    /\ DOMAIN calls = {1}
    /\ calls[1].op = "from"
    /\ calls[1].pc = "done"
    /\ calls[1].result.ok
    /\ Len(calls[1].words) = 18
    /\ Len(SplitLastFront(PackedBytes(calls[1]))) = 24
    /\ to_string(Mnemonic_mnemonic(salt, SplitLastFront(PackedBytes(calls[1]))).words) = calls[1].input

====
